---- MODULE Spec2Model ----
(***************************************************************************)
(* codeloom: the background job supervisor (process.py, ProcessManager)    *)
(* and the stream session driver (brain.py, ClaudeBrain).                   *)
(*                                                                         *)
(* The supervisor is modelled as one foreground thread (the conversation   *)
(* loop calling run/kill/list/...), one capture-worker thread per launched *)
(* job, and the operating system's view of each job process.  No lock      *)
(* exists in the source, so the threads interleave at every access of the  *)
(* shared record mapping, of the index file and of the log files.          *)
(***************************************************************************)
EXTENDS Integers, Sequences, FiniteSets, TLC

\* ------------------------------------------------------------------ bounds
MaxLaunches == 3   \* launches in all (the process ids there are)
MaxPair == 2       \* launches in the specification of concurrent jobs
MaxSolo == 1       \* launches in the specification of all operations
MaxOut == 1        \* output lines a job writes
MaxUnits == 2      \* lines the engine writes for one request
MaxRequests == 2   \* requests made of the driver

\* --------------------------------------------------------------- constants
SIGTERM == 15

Names == {"a", "a_1"}
\* the launches a caller asks for: command, name, callback flag
Requests ==
  { [command |-> "c1", name |-> "a", callback |-> TRUE],
    [command |-> "c2", name |-> "a", callback |-> FALSE],
    [command |-> "c1", name |-> "a_1", callback |-> TRUE] }
Cwd == "wd"
ExitCodes == {0, 1}
Pids == 1..MaxLaunches

VARIABLES
  processes,   \* ProcessManager.processes: id -> ProcessInfo
  disk,        \* index.json: id -> ProcessInfo as last written
  logs,        \* <id>.log files: id -> [ino, lines]
  nextPid,     \* pid the next Popen gets
  os,          \* pid -> [state, code, sig]: the job process as the OS sees it
  wk,          \* pid -> capture worker thread of that launch
  main,        \* the foreground thread: operation in progress and its locals
  last,        \* the kill or mark_reviewed call that returned last, if the
               \* foreground made no other call since
  marked       \* pids of the records mark_reviewed was called on

supVars == <<processes, disk, logs, nextPid, os, wk, main, last, marked>>

VARIABLES
  brain,       \* ClaudeBrain: [process, interrupted]; asked tells that
               \* interrupt() was called since send() was called last
  gen,         \* the generator send() returned: where it stands and its locals
  engine,      \* the engine process: [state, pipe, sent, sig]
  events,      \* the events the caller received for the request in progress
  answer       \* what the last call of interrupt() returned or raised;
               \* "calling" while a call is between lines 124 and 127

drvVars == <<brain, gen, engine, events, answer>>

VARIABLES
  loop         \* Codeloom.run: where the conversation loop stands, the pending
               \* records it still has to send and, per pid, how often it
               \* called _send_message with the record's callback message

vars == <<supVars, drvVars, loop>>

\* ----------------------------------------------------------------- helpers
Empty == <<>>

Put(f, k, v) == [x \in (DOMAIN f) \cup {k} |-> IF x = k THEN v ELSE f[x]]

Del(f, S) == [x \in (DOMAIN f) \ S |-> f[x]]

\* A write through an object reference: the record whose pid is p, if it is
\* still in the mapping (a write to an object no longer in the mapping is seen
\* by nobody).
SetAttr(procs, p, attr, val) ==
  [i \in DOMAIN procs |->
     IF procs[i].pid = p THEN [procs[i] EXCEPT ![attr] = val] ELSE procs[i]]

HasObj(procs, p) == \E i \in DOMAIN procs : procs[i].pid = p

ObjOf(procs, p) == procs[CHOOSE i \in DOMAIN procs : procs[i].pid = p]

ProcessInfo(id, pid, command, callback) ==
  [id |-> id, pid |-> pid, command |-> command, status |-> "running",
   exit_code |-> {}, cwd |-> Cwd, callback |-> callback, reviewed |-> FALSE]

\* a loop that tries the first suffix only
SuffixedOnce(base_id, counter, procs) ==
  base_id \o "_" \o ToString(counter)

\* run, lines 131-135: the first free id of base_id_1, base_id_2, ...
RECURSIVE Suffixed(_, _, _)
Suffixed(base_id, counter, procs) ==
  LET proc_id == base_id \o "_" \o ToString(counter) IN
  IF proc_id \in DOMAIN procs
    THEN Suffixed(base_id, counter + 1, procs)
    ELSE proc_id

UniqueId(name, procs) ==
  IF name \in DOMAIN procs THEN Suffixed(name, 1, procs) ELSE name

\* os.kill(pid, 0): a zombie still answers, a reaped process does not.
IsRunning(pid) == os[pid].state # "gone"

\* ------------------------------------------------------------- log files
\* What each write puts into a log; lines |-> the writes in order.  Now stands
\* for datetime.now().isoformat(), Rule for "-" * 40.
Now == "<now>"
Rule == "----------------------------------------\n"
Header(command) ==
  "$ " \o command \o "\n" \o "Started: " \o Now \o "\n"
       \o "CWD: " \o Cwd \o "\n" \o Rule
OutLine(pid) == "out" \o ToString(pid) \o "\n"
ExitTrailer(rc) ==
  Rule \o "Exited: " \o Now \o "\n" \o "Exit code: " \o ToString(rc) \o "\n"
KillTrailer == Rule \o "Killed: " \o Now \o "\n"
ErrorLine == "\nError capturing output: 'a'\n"

\* open(path, "w") followed by the header: an existing file is truncated in
\* place (same inode), a missing one is created.
CreateLog(files, id, ino, line) ==
  Put(files, id, [ino |-> IF id \in DOMAIN files THEN files[id].ino ELSE ino,
                  lines |-> <<line>>])

\* open(path, "a"), write, close: appends, creating the file if it is missing.
AppendPath(files, id, ino, line) ==
  IF id \in DOMAIN files
    THEN [files EXCEPT ![id].lines = Append(@, line)]
    ELSE Put(files, id, [ino |-> ino, lines |-> <<line>>])

\* Inode identities.  A file is created by the run of launch p (p), by the
\* open of worker p (-p) or by worker p's trailer or error write
\* (-(p + MaxLaunches)); each of these happens at most once, so the numbers
\* name distinct files.  kill appends only to a tracked job's log, which exists.
OpenIno(p) == 0 - p
TrailerIno(p) == 0 - (p + MaxLaunches)

\* a write through an open handle reaches the file only while the path still
\* names the inode the handle was opened on.
AppendHandle(files, id, fh, line) ==
  IF id \in DOMAIN files /\ files[id].ino = fh
    THEN [files EXCEPT ![id].lines = Append(@, line)]
    ELSE files

\* ------------------------------------------------------- thread records
\* op is the call in progress, args the arguments of a run, id the job id the
\* call is about, ref the pid of the record object it holds.
\* ret is "True", "False", "None" or "ok"; val is the set of pids of the
\* records returned; n is the count returned and m the number of log files
\* the call unlinked (for get_output, n is its tail argument and text the
\* string it returned); dead is the set of pids whose probe failed in the
\* reconciliation pass of the call.
NoArgs == [command |-> "", name |-> "", callback |-> FALSE]

IdleMain == [pc |-> "idle", op |-> "none", id |-> "", ref |-> 0,
             args |-> NoArgs, snap |-> Empty, todo |-> <<>>,
             ret |-> "none", val |-> {}, n |-> 0, m |-> 0, dead |-> {},
             text |-> ""]

\* the foreground thread at the return of a call
Returning(op, id, ret, val, n, m) ==
  [IdleMain EXCEPT !.pc = "return", !.op = op, !.id = id,
                   !.ret = ret, !.val = val, !.n = n, !.m = m]

NoLast == [op |-> "none", id |-> "", ret |-> "none", quiet |-> FALSE]

NoWorker == [pc |-> "none", id |-> "", ref |-> 0, rc |-> 0, fh |-> 0,
             snap |-> Empty, outn |-> 0]

NoProc == [state |-> "none", code |-> 0, sig |-> FALSE]

NoUnit == [raw |-> "", json |-> [t |-> "invalid", v |-> ""]]

\* no request was made yet
NoGen == [pc |-> "idle", unit |-> NoUnit, queue |-> <<>>, err |-> "", req |-> 0]

NoEngine == [state |-> "none", pipe |-> <<>>, sent |-> 0, sig |-> FALSE]

Init ==
  /\ processes = Empty
  /\ disk = Empty
  /\ logs = Empty
  /\ nextPid = 1
  /\ os = [p \in Pids |-> NoProc]
  /\ wk = [p \in Pids |-> NoWorker]
  /\ main = IdleMain
  /\ last = NoLast
  /\ marked = {}
  /\ brain = [process |-> FALSE, interrupted |-> FALSE, asked |-> FALSE]
  /\ gen = NoGen
  /\ engine = NoEngine
  /\ events = <<>>
  /\ answer = "none"
  /\ loop = [pc |-> "top", todo |-> <<>>, sent |-> [p \in Pids |-> 0]]

\* ------------------------------------------------------ the job process
Reaped == [state |-> "gone", code |-> 0, sig |-> FALSE]

\* a job process whose supervisor has exited: nobody in this program is its
\* parent any more (run has started its capture worker before it returns)
Orphan(p) == wk[p].pc = "none" /\ ~(main.op = "run" /\ main.ref = p)

\* The process ends on its own account with some exit code, or, once SIGTERM
\* was delivered, by the signal (Popen.returncode = -SIGTERM).  It stays a
\* zombie until its parent waits for it; an orphan is reaped at once.
ProcExit(p, c) ==
  /\ os[p].state = "alive"
  /\ c \in ExitCodes \/ (os[p].sig /\ c = -SIGTERM)
  /\ os' = [os EXCEPT ![p] = IF Orphan(p) THEN Reaped
                              ELSE [@ EXCEPT !.state = "zombie", !.code = c]]
  /\ UNCHANGED <<drvVars, loop>>
  /\ UNCHANGED <<processes, disk, logs, nextPid, wk, main, last, marked>>

\* ---------------------------------------------------- capture worker
DoneWorker == [NoWorker EXCEPT !.pc = "done"]

\* with open(output_file, "a") as f
WOpen(p) ==
  /\ wk[p].pc = "open"
  /\ LET id == wk[p].id IN
     IF id \in DOMAIN logs
       THEN /\ wk' = [wk EXCEPT ![p].pc = "read", ![p].fh = logs[id].ino]
            /\ UNCHANGED logs
       ELSE /\ wk' = [wk EXCEPT ![p].pc = "read", ![p].fh = OpenIno(p)]
            /\ logs' = Put(logs, id, [ino |-> OpenIno(p), lines |-> <<>>])
  /\ UNCHANGED <<drvVars, loop>>
  /\ UNCHANGED <<processes, disk, nextPid, os, main, last, marked>>

\* for line in process.stdout: f.write(line); f.flush()
WLine(p) ==
  /\ wk[p].pc = "read"
  /\ wk[p].outn < MaxOut
  /\ logs' = AppendHandle(logs, wk[p].id, wk[p].fh, OutLine(p))
  /\ wk' = [wk EXCEPT ![p].outn = @ + 1]
  /\ UNCHANGED <<drvVars, loop>>
  /\ UNCHANGED <<processes, disk, nextPid, os, main, last, marked>>

\* end of stdout, the file is closed, process.wait() reaps the process
WWait(p) ==
  /\ wk[p].pc = "read"
  /\ os[p].state = "zombie"
  /\ os' = [os EXCEPT ![p] = Reaped]
  /\ wk' = [wk EXCEPT ![p].pc = "check", ![p].rc = os[p].code,
                       ![p].fh = 0, ![p].outn = 0]
  /\ UNCHANGED <<drvVars, loop>>
  /\ UNCHANGED <<processes, disk, logs, nextPid, main, last, marked>>

\* if proc_id in self.processes
WCheck(p) ==
  /\ wk[p].pc = "check"
  /\ wk' = [wk EXCEPT ![p] = IF wk[p].id \in DOMAIN processes
                               THEN [@ EXCEPT !.pc = "lookup"]
                               ELSE DoneWorker]
  /\ UNCHANGED <<drvVars, loop>>
  /\ UNCHANGED <<processes, disk, logs, nextPid, os, main, last, marked>>

\* proc = self.processes[proc_id]   (KeyError if cleanup removed it meanwhile)
WLookup(p) ==
  /\ wk[p].pc = "lookup"
  /\ wk' = [wk EXCEPT ![p] = IF wk[p].id \in DOMAIN processes
                               THEN [@ EXCEPT !.pc = "setcode",
                                              !.ref = processes[wk[p].id].pid]
                               ELSE [@ EXCEPT !.pc = "error"]]
  /\ UNCHANGED <<drvVars, loop>>
  /\ UNCHANGED <<processes, disk, logs, nextPid, os, main, last, marked>>

\* proc.exit_code = process.returncode
WSetCode(p) ==
  /\ wk[p].pc = "setcode"
  /\ processes' = SetAttr(processes, wk[p].ref, "exit_code", {wk[p].rc})
  /\ wk' = [wk EXCEPT ![p].pc = "setstatus"]
  /\ UNCHANGED <<drvVars, loop>>
  /\ UNCHANGED <<disk, logs, nextPid, os, main, last, marked>>

ExitStatus(rc) == IF rc = 0 THEN "completed" ELSE "failed"

\* proc.status = "completed" if process.returncode == 0 else "failed"
WSetStatus(p) ==
  /\ wk[p].pc = "setstatus"
  /\ processes' = SetAttr(processes, wk[p].ref, "status", ExitStatus(wk[p].rc))
  /\ wk' = [wk EXCEPT ![p].pc = "snap"]
  /\ UNCHANGED <<drvVars, loop>>
  /\ UNCHANGED <<disk, logs, nextPid, os, main, last, marked>>

\* _save_processes, first half: data = {"processes": [p.to_dict() ...]}
WSnap(p) ==
  /\ wk[p].pc = "snap"
  /\ wk' = [wk EXCEPT ![p].pc = "write", ![p].snap = processes]
  /\ UNCHANGED <<drvVars, loop>>
  /\ UNCHANGED <<processes, disk, logs, nextPid, os, main, last, marked>>

\* _save_processes, second half: open(index_file, "w"); json.dump(data, f)
WWrite(p) ==
  /\ wk[p].pc = "write"
  /\ disk' = wk[p].snap
  /\ wk' = [wk EXCEPT ![p].pc = "trailer", ![p].snap = Empty]
  /\ UNCHANGED <<drvVars, loop>>
  /\ UNCHANGED <<processes, logs, nextPid, os, main, last, marked>>

\* what open(index_file, "w") or json.dump may raise: the index may not be
\* written, or the disk is full
SaveErrors == {"PermissionError", "OSError"}

\* index.json after a save that raised: untouched when open was refused;
\* truncated by open and left without its content when the write failed,
\* which _load_processes reads as no record (lines 72-76)
FailedIndex(index, e) == IF e = "PermissionError" THEN index ELSE Empty

\* the line the worker logs for the exception e of a save
SaveErrorLine(e) ==
  IF e = "PermissionError"
    THEN "\nError capturing output: [Errno 13] Permission denied: 'index.json'\n"
    ELSE "\nError capturing output: [Errno 28] No space left on device\n"

\* _save_processes raises in the capture worker (line 198): the except clause
\* of line 206 takes it
WWriteFails(p, e) ==
  /\ wk[p].pc = "write"
  /\ e \in SaveErrors
  /\ disk' = FailedIndex(disk, e)
  /\ wk' = [wk EXCEPT ![p].pc = e, ![p].snap = Empty]
  /\ UNCHANGED <<drvVars, loop>>
  /\ UNCHANGED <<processes, logs, nextPid, os, main, last, marked>>

\* lines 206-208 after a failed save: the error line, and the thread ends
WSaveError(p) ==
  /\ wk[p].pc \in SaveErrors
  /\ logs' = AppendPath(logs, wk[p].id, TrailerIno(p), SaveErrorLine(wk[p].pc))
  /\ wk' = [wk EXCEPT ![p] = DoneWorker]
  /\ UNCHANGED <<drvVars, loop>>
  /\ UNCHANGED <<processes, disk, nextPid, os, main, last, marked>>

\* with open(output_file, "a") as f: the exit trailer
WTrailer(p) ==
  /\ wk[p].pc = "trailer"
  /\ logs' = AppendPath(logs, wk[p].id, TrailerIno(p), ExitTrailer(wk[p].rc))
  /\ wk' = [wk EXCEPT ![p] = DoneWorker]
  /\ UNCHANGED <<drvVars, loop>>
  /\ UNCHANGED <<processes, disk, nextPid, os, main, last, marked>>

\* except Exception as e: the error line
WError(p) ==
  /\ wk[p].pc = "error"
  /\ logs' = AppendPath(logs, wk[p].id, TrailerIno(p), ErrorLine)
  /\ wk' = [wk EXCEPT ![p] = DoneWorker]
  /\ UNCHANGED <<drvVars, loop>>
  /\ UNCHANGED <<processes, disk, nextPid, os, main, last, marked>>

\* --------------------------------------------------- foreground thread
\* the ids a caller may name: the tracked ones and the names it may ask for
ArgIds == (DOMAIN processes) \cup Names

\* dict order is insertion order, and every insertion takes the next pid
RECURSIVE PidOrder(_, _)
PidOrder(S, p) ==
  IF p > MaxLaunches THEN <<>>
  ELSE IF p \in S THEN <<p>> \o PidOrder(S, p + 1) ELSE PidOrder(S, p + 1)

Tracked(procs) == {procs[i].pid : i \in DOMAIN procs}

\* no job is alive and no capture worker is at work: from here on only the
\* foreground thread acts
Quiet ==
  \A p \in Pids : wk[p].pc \in {"none", "done"} /\ os[p].state \in {"none", "gone"}

\* the call has returned to its caller
Return ==
  /\ main.pc = "return"
  /\ last' = IF main.op \in {"kill", "mark_reviewed"}
               THEN [op |-> main.op, id |-> main.id, ret |-> main.ret,
                     quiet |-> Quiet]
               ELSE NoLast
  /\ main' = IdleMain
  /\ UNCHANGED <<drvVars, loop>>
  /\ UNCHANGED <<processes, disk, logs, nextPid, os, wk, marked>>

\* run, lines 127-169: the id, the log with its header, Popen, the record
RunBegin(command, name, callback) ==
  /\ main.pc = "idle"
  /\ nextPid <= MaxLaunches
  /\ LET proc_id == UniqueId(name, processes) IN
     /\ logs' = CreateLog(logs, proc_id, nextPid, Header(command))
     /\ os' = [os EXCEPT ![nextPid] = [state |-> "alive", code |-> 0, sig |-> FALSE]]
     /\ processes' = Put(processes, proc_id,
                         ProcessInfo(proc_id, nextPid, command, callback))
     /\ main' = [IdleMain EXCEPT !.pc = "snap", !.op = "run",
                                 !.id = proc_id, !.ref = nextPid,
                                 !.args = [command |-> command, name |-> name,
                                           callback |-> callback]]
  /\ nextPid' = nextPid + 1
  /\ UNCHANGED <<drvVars, loop>>
  /\ UNCHANGED <<disk, wk, last, marked>>

\* _save_processes, first half, on the foreground thread
MainSnap ==
  /\ main.pc = "snap"
  /\ main' = [main EXCEPT !.pc = "write", !.snap = processes]
  /\ UNCHANGED <<drvVars, loop>>
  /\ UNCHANGED <<processes, disk, logs, nextPid, os, wk, last, marked>>

\* where each operation continues after its _save_processes
AfterSave(m) ==
  CASE m.op = "run" -> [m EXCEPT !.pc = "run_start"]
    [] m.op = "kill" -> [m EXCEPT !.pc = "kill_trailer"]
    [] m.op = "kill_exc" -> Returning("kill", m.id, "False", {}, 0, 0)
    [] m.op = "get_status" -> Returning("get_status", m.id, "ok", {m.ref}, 0, 0)
    [] m.op = "cleanup" -> Returning("cleanup", m.id, "ok", {}, m.n, m.m)
    [] m.op = "mark_reviewed" -> Returning("mark_reviewed", m.id, "True", {}, 0, 0)
    [] OTHER -> [m EXCEPT !.pc = "cr_next"]

\* _save_processes, second half, on the foreground thread
MainWrite ==
  /\ main.pc = "write"
  /\ disk' = main.snap
  /\ main' = AfterSave([main EXCEPT !.snap = Empty])
  /\ UNCHANGED <<drvVars, loop>>
  /\ UNCHANGED <<processes, logs, nextPid, os, wk, last, marked>>

\* _save_processes raises on the foreground thread.  Inside the try of kill
\* (line 268) a PermissionError is caught by the except clause of line 277;
\* everywhere else the exception leaves the operation.
MainWriteFails(e) ==
  /\ main.pc = "write"
  /\ e \in SaveErrors
  /\ disk' = FailedIndex(disk, e)
  /\ main' = IF main.op = "kill" /\ e = "PermissionError"
               THEN [main EXCEPT !.pc = "kill_exc", !.snap = Empty]
               ELSE Returning(IF main.op = "kill_exc" THEN "kill" ELSE main.op,
                              main.id, e, {}, 0, 0)
  /\ UNCHANGED <<drvVars, loop>>
  /\ UNCHANGED <<processes, logs, nextPid, os, wk, last, marked>>

\* a run that joins the process before it starts the capture thread
RunStartAfterExit ==
  /\ main.pc = "run_start"
  /\ os[main.ref].state # "alive"
  /\ wk' = [wk EXCEPT ![main.ref] = [NoWorker EXCEPT !.pc = "open", !.id = main.id]]
  /\ main' = Returning("run", main.id, "ok", {main.ref}, 0, 0)
  /\ UNCHANGED <<drvVars, loop>>
  /\ UNCHANGED <<processes, disk, logs, nextPid, os, last, marked>>

\* run, lines 172-181: the capture thread is started and run returns
RunStart ==
  /\ main.pc = "run_start"
  /\ wk' = [wk EXCEPT ![main.ref] = [NoWorker EXCEPT !.pc = "open", !.id = main.id]]
  /\ main' = Returning("run", main.id, "ok", {main.ref}, 0, 0)
  /\ UNCHANGED <<drvVars, loop>>
  /\ UNCHANGED <<processes, disk, logs, nextPid, os, last, marked>>

\* a kill that marks the record killed before it looks at its status
KillRefuseMarksKilled(proc_id) ==
  /\ main.pc = "idle"
  /\ proc_id \in ArgIds
  /\ (IF proc_id \in DOMAIN processes
        THEN processes[proc_id].status # "running" ELSE TRUE)
  /\ processes' = [i \in DOMAIN processes |->
                     IF i = proc_id THEN [processes[i] EXCEPT !.status = "killed"]
                                    ELSE processes[i]]
  /\ main' = Returning("kill", proc_id, "False", {}, 0, 0)
  /\ UNCHANGED <<drvVars, loop>>
  /\ UNCHANGED <<disk, logs, nextPid, os, wk, last, marked>>

\* kill, lines 256-262: unknown or not running returns False at once
KillRefuse(proc_id) ==
  /\ main.pc = "idle"
  /\ proc_id \in ArgIds
  /\ (IF proc_id \in DOMAIN processes
        THEN processes[proc_id].status # "running" ELSE TRUE)
  /\ main' = Returning("kill", proc_id, "False", {}, 0, 0)
  /\ UNCHANGED <<drvVars, loop>>
  /\ UNCHANGED <<processes, disk, logs, nextPid, os, wk, last, marked>>

KillBegin(proc_id) ==
  /\ main.pc = "idle"
  /\ proc_id \in DOMAIN processes
  /\ processes[proc_id].status = "running"
  /\ main' = [IdleMain EXCEPT !.pc = "kill_sig", !.op = "kill",
                              !.id = proc_id, !.ref = processes[proc_id].pid]
  /\ UNCHANGED <<drvVars, loop>>
  /\ UNCHANGED <<processes, disk, logs, nextPid, os, wk, last, marked>>

\* what killpg does to a process that exists: the signal is delivered, or the
\* caller may not signal it (the job runs under another user by now)
KillOutcomes == {"delivered", "denied"}

\* os.killpg(os.getpgid(proc.pid), signal.SIGTERM): ProcessLookupError when the
\* process was reaped, PermissionError when the signal is denied
KillSignal(outcome) ==
  /\ main.pc = "kill_sig"
  /\ outcome \in KillOutcomes
  /\ IF os[main.ref].state = "gone" \/ outcome = "denied"
       THEN /\ main' = [main EXCEPT !.pc = "kill_exc"]
            /\ os' = os
       ELSE /\ main' = [main EXCEPT !.pc = "kill_set"]
            /\ os' = [os EXCEPT ![main.ref].sig = TRUE]
  /\ UNCHANGED <<drvVars, loop>>
  /\ UNCHANGED <<processes, disk, logs, nextPid, wk, last, marked>>

\* a kill that leaves the status as it is
KillSetKeepsStatus ==
  /\ main.pc = "kill_set"
  /\ main' = [main EXCEPT !.pc = "snap"]
  /\ UNCHANGED <<drvVars, loop>>
  /\ UNCHANGED <<processes, disk, logs, nextPid, os, wk, last, marked>>

\* proc.status = "killed"
KillSet ==
  /\ main.pc = "kill_set"
  /\ processes' = SetAttr(processes, main.ref, "status", "killed")
  /\ main' = [main EXCEPT !.pc = "snap"]
  /\ UNCHANGED <<drvVars, loop>>
  /\ UNCHANGED <<disk, logs, nextPid, os, wk, last, marked>>

\* a kill that writes no trailer
KillTrailerStepSilent ==
  /\ main.pc = "kill_trailer"
  /\ main' = Returning("kill", main.id, "True", {}, 0, 0)
  /\ UNCHANGED <<drvVars, loop>>
  /\ UNCHANGED <<processes, disk, logs, nextPid, os, wk, last, marked>>

\* the kill trailer, return True
KillTrailerStep ==
  /\ main.pc = "kill_trailer"
  /\ logs' = AppendPath(logs, main.id, 0, KillTrailer)
  /\ main' = Returning("kill", main.id, "True", {}, 0, 0)
  /\ UNCHANGED <<drvVars, loop>>
  /\ UNCHANGED <<processes, disk, nextPid, os, wk, last, marked>>

\* except (ProcessLookupError, PermissionError): proc.status = "completed"
KillExcept ==
  /\ main.pc = "kill_exc"
  /\ processes' = SetAttr(processes, main.ref, "status", "completed")
  /\ main' = [main EXCEPT !.pc = "snap", !.op = "kill_exc"]
  /\ UNCHANGED <<drvVars, loop>>
  /\ UNCHANGED <<disk, logs, nextPid, os, wk, last, marked>>

\* get_status, lines 236-247, when nothing is to be corrected
GetStatusNow(proc_id) ==
  /\ main.pc = "idle"
  /\ proc_id \in ArgIds
  /\ IF proc_id \notin DOMAIN processes
       THEN main' = Returning("get_status", proc_id, "None", {}, 0, 0)
       ELSE /\ ~(processes[proc_id].status = "running"
                 /\ ~IsRunning(processes[proc_id].pid))
            /\ main' = Returning("get_status", proc_id, "ok",
                                 {processes[proc_id].pid}, 0, 0)
  /\ UNCHANGED <<drvVars, loop>>
  /\ UNCHANGED <<processes, disk, logs, nextPid, os, wk, last, marked>>

\* get_status, lines 242-243: marked running but the process is gone
GetStatusProbe(proc_id) ==
  /\ main.pc = "idle"
  /\ proc_id \in DOMAIN processes
  /\ processes[proc_id].status = "running"
  /\ ~IsRunning(processes[proc_id].pid)
  /\ main' = [IdleMain EXCEPT !.pc = "gs_set", !.op = "get_status",
                              !.id = proc_id, !.ref = processes[proc_id].pid]
  /\ UNCHANGED <<drvVars, loop>>
  /\ UNCHANGED <<processes, disk, logs, nextPid, os, wk, last, marked>>

\* proc.status = "completed"
GetStatusSet ==
  /\ main.pc = "gs_set"
  /\ processes' = SetAttr(processes, main.ref, "status", "completed")
  /\ main' = [main EXCEPT !.pc = "snap"]
  /\ UNCHANGED <<drvVars, loop>>
  /\ UNCHANGED <<disk, logs, nextPid, os, wk, last, marked>>

\* list_processes and get_pending_callbacks start with _check_running, which
\* walks a copy of the items
CheckOps == {"list_all", "list_running", "pending"}

\* __init__, lines 61-62: the program starts again; the index is loaded and
\* reconciled.  The threads of the program that exited are gone with it, its
\* zombies are reaped, its live jobs run on as orphans.
Restart ==
  /\ main.pc = "idle"
  /\ processes' = disk
  /\ wk' = [p \in Pids |-> NoWorker]
  /\ os' = [p \in Pids |-> IF os[p].state = "zombie" THEN Reaped ELSE os[p]]
  /\ main' = [IdleMain EXCEPT !.pc = "cr_next", !.op = "startup",
                              !.todo = PidOrder(Tracked(disk), 1)]
  /\ last' = NoLast
  /\ UNCHANGED <<drvVars, loop>>
  /\ UNCHANGED <<disk, logs, nextPid, marked>>

CheckRunningBegin(op) ==
  /\ main.pc = "idle"
  /\ op \in CheckOps
  /\ main' = [IdleMain EXCEPT !.pc = "cr_next", !.op = op,
                              !.todo = PidOrder(Tracked(processes), 1)]
  /\ UNCHANGED <<drvVars, loop>>
  /\ UNCHANGED <<processes, disk, logs, nextPid, os, wk, last, marked>>

\* _check_running, lines 89-91: one iteration
CheckRunningNext ==
  /\ main.pc = "cr_next"
  /\ main.todo # <<>>
  /\ LET p == Head(main.todo) IN
     IF ObjOf(processes, p).status = "running" /\ ~IsRunning(p)
       THEN main' = [main EXCEPT !.pc = "cr_set", !.ref = p, !.todo = Tail(@),
                                 !.dead = @ \cup {p}]
       ELSE main' = [main EXCEPT !.todo = Tail(@)]
  /\ UNCHANGED <<drvVars, loop>>
  /\ UNCHANGED <<processes, disk, logs, nextPid, os, wk, last, marked>>

\* a reconciliation that finds the process gone and leaves the status as it is
CheckRunningSetNothing ==
  /\ main.pc = "cr_set"
  /\ main' = [main EXCEPT !.pc = "snap"]
  /\ UNCHANGED <<drvVars, loop>>
  /\ UNCHANGED <<processes, disk, logs, nextPid, os, wk, last, marked>>

\* _check_running, line 93: proc.status = "completed", then line 95 saves
CheckRunningSet ==
  /\ main.pc = "cr_set"
  /\ processes' = SetAttr(processes, main.ref, "status", "completed")
  /\ main' = [main EXCEPT !.pc = "snap"]
  /\ UNCHANGED <<drvVars, loop>>
  /\ UNCHANGED <<disk, logs, nextPid, os, wk, last, marked>>

\* a filter that forgets the callback flag
PendingAnyJob(procs) ==
  {procs[i].pid : i \in {j \in DOMAIN procs :
      ~procs[j].reviewed /\ procs[j].status # "running"}}

\* a filter that takes the jobs that asked for no callback
PendingUnflagged(procs) ==
  {procs[i].pid : i \in {j \in DOMAIN procs :
      ~procs[j].callback /\ ~procs[j].reviewed /\ procs[j].status # "running"}}

\* get_pending_callbacks, lines 345-347: the filter
Pending(procs) ==
  {procs[i].pid : i \in {j \in DOMAIN procs :
      procs[j].callback /\ ~procs[j].reviewed /\ procs[j].status # "running"}}

Running(procs) ==
  {procs[i].pid : i \in {j \in DOMAIN procs : procs[j].status = "running"}}

Listing(op, procs) ==
  CASE op = "list_all" -> Tracked(procs)
    [] op = "list_running" -> Running(procs)
    [] op = "pending" -> Pending(procs)
    [] OTHER -> {}

\* list_processes lines 294-297, get_pending_callbacks lines 344-348
CheckRunningReturn ==
  /\ main.pc = "cr_next"
  /\ main.todo = <<>>
  /\ main' = [Returning(main.op, "", "ok", Listing(main.op, processes), 0, 0)
                 EXCEPT !.dead = main.dead]
  /\ UNCHANGED <<drvVars, loop>>
  /\ UNCHANGED <<processes, disk, logs, nextPid, os, wk, last, marked>>

ToRemove(procs, keep_running) ==
  {i \in DOMAIN procs : procs[i].status # "running" \/ ~keep_running}

\* cleanup, lines 309-319: the records are deleted and their logs unlinked
CleanupBegin(keep_running) ==
  /\ main.pc = "idle"
  /\ LET to_remove == ToRemove(processes, keep_running) IN
     /\ processes' = Del(processes, to_remove)
     /\ logs' = Del(logs, to_remove)
     /\ marked' = marked \ {processes[i].pid : i \in to_remove}
     /\ main' = [IdleMain EXCEPT !.pc = "snap", !.op = "cleanup",
                   !.id = IF keep_running THEN "keep" ELSE "all",
                   !.n = Cardinality(to_remove),
                   !.m = Cardinality(to_remove \cap DOMAIN logs)]
  /\ UNCHANGED <<drvVars, loop>>
  /\ UNCHANGED <<disk, nextPid, os, wk, last>>

\* "".join(lines)
RECURSIVE Join(_)
Join(lines) == IF lines = <<>> THEN "" ELSE Head(lines) \o Join(Tail(lines))

\* the index of the newline that ends the line starting at i, or the end of x
RECURSIVE LineEnd(_, _)
LineEnd(x, i) ==
  IF i >= Len(x) THEN Len(x)
  ELSE IF SubSeq(x, i, i) = "\n" THEN i ELSE LineEnd(x, i + 1)

\* f.readlines(): the lines of x, each with the newline that ends it
RECURSIVE ReadLines(_)
ReadLines(x) ==
  IF x = "" THEN <<>>
  ELSE LET k == LineEnd(x, 1)
       IN <<SubSeq(x, 1, k)>> \o ReadLines(SubSeq(x, k + 1, Len(x)))

\* a tail that keeps one line too few
LastLinesShort(lines, tail) ==
  IF tail > 0 /\ Len(lines) > tail
    THEN Join(SubSeq(lines, Len(lines) - tail + 2, Len(lines)))
    ELSE Join(lines)

\* get_output, lines 227-229: lines[-tail:] when the log is longer than tail
LastLines(lines, tail) ==
  IF tail > 0 /\ Len(lines) > tail
    THEN Join(SubSeq(lines, Len(lines) - tail + 1, Len(lines)))
    ELSE Join(lines)

\* the tail arguments get_output is called with
TailLines == {-1, 0, 1, 3, 8}

\* get_output, lines 220-229
GetOutput(proc_id, tail) ==
  /\ main.pc = "idle"
  /\ proc_id \in ArgIds
  /\ tail \in TailLines
  /\ main' = IF proc_id \in DOMAIN logs
               THEN [Returning("get_output", proc_id, "ok", {}, tail, 0)
                       EXCEPT !.text = LastLines(ReadLines(Join(logs[proc_id].lines)),
                                                 tail)]
               ELSE Returning("get_output", proc_id, "None", {}, tail, 0)
  /\ UNCHANGED <<drvVars, loop>>
  /\ UNCHANGED <<processes, disk, logs, nextPid, os, wk, last, marked>>

\* mark_reviewed, lines 352-353
MarkReviewedBegin(proc_id) ==
  /\ main.pc = "idle"
  /\ proc_id \in DOMAIN processes
  /\ processes' = [processes EXCEPT ![proc_id].reviewed = TRUE]
  /\ marked' = marked \cup {processes[proc_id].pid}
  /\ main' = [IdleMain EXCEPT !.pc = "snap", !.op = "mark_reviewed",
                              !.id = proc_id, !.ref = processes[proc_id].pid]
  /\ UNCHANGED <<drvVars, loop>>
  /\ UNCHANGED <<disk, logs, nextPid, os, wk, last>>

\* mark_reviewed, line 356: unknown id
MarkReviewedUnknown(proc_id) ==
  /\ main.pc = "idle"
  /\ proc_id \in ArgIds
  /\ proc_id \notin DOMAIN processes
  /\ main' = Returning("mark_reviewed", proc_id, "False", {}, 0, 0)
  /\ UNCHANGED <<drvVars, loop>>
  /\ UNCHANGED <<processes, disk, logs, nextPid, os, wk, last, marked>>

\* get_callback_message, line 358: the default of max_output
MaxOutput == 2000

\* get_callback_message, lines 369-386, for the record object with pid p that
\* the caller holds: the last 100 lines of the log, or "(no output)" when the
\* log is missing or empty, cut after max_output characters; the status text
\* is chosen by the exit code alone.
GetCallbackMessage(p) ==
  /\ main.pc = "idle"
  /\ HasObj(processes, p)
  /\ LET proc == ObjOf(processes, p)
         read == IF proc.id \in DOMAIN logs
                   THEN LastLines(ReadLines(Join(logs[proc.id].lines)), 100)
                   ELSE ""
         whole == IF read = "" THEN "(no output)" ELSE read
         output == IF Len(whole) > MaxOutput
                     THEN SubSeq(whole, 1, MaxOutput) \o "\n... (truncated)"
                     ELSE whole
         code == IF proc.exit_code = {} THEN "None"
                 ELSE ToString(CHOOSE c \in proc.exit_code : TRUE)
         status_msg == IF proc.exit_code = {0}
                         THEN "completed successfully"
                         ELSE "failed with exit code " \o code
     IN main' = [Returning("get_callback_message", proc.id, "ok", {p}, 0, 0)
                   EXCEPT !.ref = p,
                          !.text = "Background process [" \o proc.id \o "] has "
                                     \o status_msg \o ".\n\n"
                                     \o "Command: " \o proc.command \o "\n"
                                     \o "Working directory: " \o proc.cwd \o "\n"
                                     \o "Exit code: " \o code \o "\n\n"
                                     \o "Output:\n" \o output \o "\n\n"
                                     \o "Please review the output and continue with the next steps."]
  /\ UNCHANGED <<drvVars, loop>>
  /\ UNCHANGED <<processes, disk, logs, nextPid, os, wk, last, marked>>

\* =================================================== stream session driver
\* ------------------------------------------------------------ JSON values
\* A value json.loads returns, tagged with the name of its Python type; v is
\* the string of a str, the digits of an int, the items of a list, the
\* key -> value function of a dict.
JStr(x) == [t |-> "str", v |-> x]
JInt(x) == [t |-> "int", v |-> x]
JList(q) == [t |-> "list", v |-> q]
JDict(f) == [t |-> "dict", v |-> f]
EmptyDict == JDict(<<>>)
JNone == [t |-> "NoneType", v |-> ""]

\* json.loads raised JSONDecodeError
NotJson == [t |-> "invalid", v |-> ""]

\* x == "s"
Is(j, x) == j.t = "str" /\ j.v = x

\* dict.get(k, d)
Get(j, k, d) == IF k \in DOMAIN j.v THEN j.v[k] ELSE d

\* bool(x)
Truthy(j) ==
  CASE j.t = "str" -> j.v # ""
    [] j.t = "int" -> j.v # "0"
    [] j.t = "list" -> j.v # <<>>
    [] j.t = "dict" -> DOMAIN j.v # {}
    [] OTHER -> FALSE

\* repr(x) of an item of a list (a container in a list is rendered by its
\* type name only: no unit of the model nests one)
Repr(j) ==
  CASE j.t = "str" -> "'" \o j.v \o "'"
    [] j.t = "int" -> j.v
    [] OTHER -> "<" \o j.t \o ">"

RECURSIVE ReprItems(_)
ReprItems(q) ==
  IF q = <<>> THEN ""
  ELSE IF Len(q) = 1 THEN Repr(q[1])
  ELSE Repr(q[1]) \o ", " \o ReprItems(Tail(q))

\* str(x) as an f-string renders it (a dict is rendered by its type name
\* only: no unit of the model formats one)
Str(j) ==
  CASE j.t \in {"str", "int"} -> j.v
    [] j.t = "list" -> "[" \o ReprItems(j.v) \o "]"
    [] OTHER -> "<" \o j.t \o ">"

\* the message of the AttributeError x.get raises on a value that is no dict
AttrErr(j) == "'" \o j.t \o "' object has no attribute 'get'"

\* ---------------------------------------------------------------- strings
IsSpace(c) == c \in {" ", "\t", "\n", "\r"}

RECURSIVE LStrip(_)
LStrip(x) ==
  IF x # "" /\ IsSpace(SubSeq(x, 1, 1)) THEN LStrip(SubSeq(x, 2, Len(x))) ELSE x

RECURSIVE RStrip(_)
RStrip(x) ==
  IF x # "" /\ IsSpace(SubSeq(x, Len(x), Len(x)))
    THEN RStrip(SubSeq(x, 1, Len(x) - 1)) ELSE x

\* str.strip()
Strip(x) == RStrip(LStrip(x))

\* str.count("\n")
RECURSIVE CountNewlines(_)
CountNewlines(x) ==
  IF Len(x) <= 1 THEN (IF x = "\n" THEN 1 ELSE 0)
  ELSE CountNewlines(SubSeq(x, 1, Len(x) \div 2))
       + CountNewlines(SubSeq(x, Len(x) \div 2 + 1, Len(x)))

\* ----------------------------------------------------------------- events
StreamEvent(text, is_tool_call, is_error, is_done) ==
  [text |-> text, is_tool_call |-> is_tool_call,
   is_error |-> is_error, is_done |-> is_done]

\* a text event that ends its text with a newline
TextEventLine(text) == StreamEvent(text \o "\n", FALSE, FALSE, FALSE)

TextEvent(text) == StreamEvent(text, FALSE, FALSE, FALSE)
ToolEvent(text) == StreamEvent(text, TRUE, FALSE, FALSE)
DoneEvent == StreamEvent("", FALSE, FALSE, TRUE)
InterruptedEvent == StreamEvent("\n[Interrupted]", FALSE, FALSE, TRUE)
NotFoundEvent ==
  StreamEvent("Error: 'claude' command not found. Is Claude Code installed?",
              FALSE, TRUE, TRUE)
ErrorEvent(msg) == StreamEvent("Error: " \o msg, FALSE, TRUE, TRUE)

\* what a generator has produced: the events it yielded and, if it ended by
\* raising, the message of the exception ("" if it returned)
Ok(evs) == [evs |-> evs, err |-> ""]
Fail(evs, msg) == [evs |-> evs, err |-> msg]

TruncateAt == 2000
DumpCut == 200

\* content[:2000] + "\n... (truncated)" when len(content) > 2000, on a string
Truncate(x) ==
  IF Len(x) > TruncateAt
    THEN SubSeq(x, 1, TruncateAt) \o "\n... (truncated)" ELSE x

\* lines 215-220 and 228-233: the event of a tool output.  len() of a number
\* raises; len() of a list counts its items, and a list longer than the cut
\* cannot be concatenated with the marker.
ToolOutput(content, prefix) ==
  IF ~Truthy(content) THEN Ok(<<>>)
  ELSE CASE content.t = "str" ->
              Ok(<<ToolEvent(prefix \o Truncate(content.v) \o "\n")>>)
         [] content.t = "int" ->
              Fail(<<>>, "object of type 'int' has no len()")
         [] content.t = "list" ->
              IF Len(content.v) > TruncateAt
                THEN Fail(<<>>, "can only concatenate list (not \"str\") to list")
                ELSE Ok(<<ToolEvent(prefix \o Str(content) \o "\n")>>)
         [] OTHER -> Ok(<<ToolEvent(prefix \o Str(content) \o "\n")>>)

\* the pictographs of the display texts, written by their code points
MemoGlyph == "U+1F4DD"
PencilGlyph == "U+270F U+FE0F"
BookGlyph == "U+1F4D6"
LensGlyph == "U+1F50D"
GearGlyph == "U+2699"
ArrowGlyph == "U+2192"

\* _format_tool_use
FormatToolUse(tool_name, tool_input) ==
  IF tool_name.t = "str"
     /\ tool_name.v \in {"Write", "Edit", "Bash", "Read", "Glob", "Grep"}
    THEN IF tool_input.t # "dict" THEN Fail(<<>>, AttrErr(tool_input))
         ELSE LET file_path == Str(Get(tool_input, "file_path", JStr("")))
                  pattern == Str(Get(tool_input, "pattern", JStr("")))
              IN CASE Is(tool_name, "Write") ->
                        LET content == Get(tool_input, "content", JStr(""))
                            lines == IF Truthy(content)
                                       THEN CountNewlines(Str(content)) + 1 ELSE 0
                        IN Ok(<<ToolEvent(MemoGlyph \o " Writing " \o file_path \o " ("
                                          \o ToString(lines) \o " lines)\n")>>)
                   [] Is(tool_name, "Edit") ->
                        Ok(<<ToolEvent(PencilGlyph \o "  Editing " \o file_path \o "\n")>>)
                   [] Is(tool_name, "Bash") ->
                        Ok(<<ToolEvent("$ "
                             \o Str(Get(tool_input, "command", JStr(""))) \o "\n")>>)
                   [] Is(tool_name, "Read") ->
                        Ok(<<ToolEvent(BookGlyph \o " Reading " \o file_path \o "\n")>>)
                   [] Is(tool_name, "Glob") ->
                        Ok(<<ToolEvent(LensGlyph \o " Glob " \o pattern \o "\n")>>)
                   [] OTHER ->
                        Ok(<<ToolEvent(LensGlyph \o " Grep " \o pattern \o "\n")>>)
    ELSE Ok(<<ToolEvent(GearGlyph \o " " \o Str(tool_name) \o "\n")>>)

\* one generator after another: the second runs only if the first returned
Then(a, b) == IF a.err # "" THEN a ELSE [evs |-> a.evs \o b.evs, err |-> b.err]

\* _parse_stream_event, lines 171-181: one block of an assistant message
AssistantBlock(block) ==
  IF block.t # "dict" THEN Fail(<<>>, AttrErr(block))
  ELSE LET block_type == Get(block, "type", JNone) IN
       CASE Is(block_type, "text") ->
              LET text == Get(block, "text", JStr("")) IN
              IF ~Truthy(text) THEN Ok(<<>>)
              ELSE IF text.t = "str" THEN Ok(<<TextEvent(text.v \o "\n")>>)
              ELSE Fail(<<>>, "unsupported operand type(s) for +: '"
                              \o text.t \o "' and 'str'")
         [] Is(block_type, "tool_use") ->
              FormatToolUse(Get(block, "name", JStr("tool")),
                            Get(block, "input", EmptyDict))
         [] OTHER -> Ok(<<>>)

\* _parse_stream_event, lines 223-230: one block of a user message
UserBlock(block) ==
  IF block.t # "dict" THEN Fail(<<>>, AttrErr(block))
  ELSE IF ~Is(Get(block, "type", JNone), "tool_result") THEN Ok(<<>>)
  ELSE ToolOutput(Get(block, "content", JStr("")), ArrowGlyph \o " ")

\* for block in content, with the loop body given by the message's kind
RECURSIVE Blocks(_, _)
Blocks(content, assistant) ==
  IF content = <<>> THEN Ok(<<>>)
  ELSE Then(IF assistant THEN AssistantBlock(Head(content))
                         ELSE UserBlock(Head(content)),
            Blocks(Tail(content), assistant))

\* message = event.get("message", {}); content = message.get("content", [])
MessageBlocks(event, assistant) ==
  LET message == Get(event, "message", EmptyDict) IN
  IF message.t # "dict" THEN Fail(<<>>, AttrErr(message))
  ELSE LET content == Get(message, "content", JList(<<>>)) IN
       CASE content.t = "list" -> Blocks(content.v, assistant)
         [] content.t = "int" -> Fail(<<>>, "'int' object is not iterable")
         [] OTHER -> IF Truthy(content) THEN Fail(<<>>, AttrErr(JStr("")))
                                        ELSE Ok(<<>>)

\* _parse_stream_event: the events of one decoded unit; dumped is
\* json.dumps(event)
ParseStreamEvent(event, dumped) ==
  IF event.t # "dict" THEN Fail(<<>>, AttrErr(event))
  ELSE LET event_type == Get(event, "type", JStr("")) IN
  CASE Is(event_type, "assistant") -> MessageBlocks(event, TRUE)
    [] Is(event_type, "content_block_start") ->
         LET content_block == Get(event, "content_block", EmptyDict) IN
         IF content_block.t # "dict" THEN Fail(<<>>, AttrErr(content_block))
         ELSE IF Is(Get(content_block, "type", JStr("")), "tool_use")
           THEN Ok(<<ToolEvent("\n" \o GearGlyph \o " "
                     \o Str(Get(content_block, "name", JStr("tool"))) \o "\n")>>)
           ELSE Ok(<<>>)
    [] Is(event_type, "content_block_delta") ->
         LET delta == Get(event, "delta", EmptyDict) IN
         IF delta.t # "dict" THEN Fail(<<>>, AttrErr(delta))
         ELSE IF Is(Get(delta, "type", JStr("")), "text_delta")
           THEN LET text == Get(delta, "text", JStr("")) IN
                IF Truthy(text) THEN Ok(<<TextEvent(Str(text))>>) ELSE Ok(<<>>)
           ELSE Ok(<<>>)
    [] Is(event_type, "content_block_stop") -> Ok(<<TextEvent("\n")>>)
    [] Is(event_type, "tool_use") ->
         FormatToolUse(Get(event, "tool", Get(event, "name", JStr("tool"))),
                       Get(event, "input", EmptyDict))
    [] Is(event_type, "tool_result") ->
         ToolOutput(Get(event, "content", JStr("")), "")
    [] Is(event_type, "user") -> MessageBlocks(event, FALSE)
    [] Is(event_type, "system") ->
         LET message == Get(event, "message", JStr(""))
             subtype == Get(event, "subtype", JStr(""))
         IN IF Truthy(message)
              THEN Ok(<<StreamEvent(Str(message) \o "\n",
                                    Is(subtype, "tool_use"), FALSE, FALSE)>>)
              ELSE Ok(<<>>)
    [] Is(event_type, "result") ->
         LET result == Get(event, "result", JStr(""))
             subtype == Get(event, "subtype", JStr(""))
         IN IF ~Is(subtype, "success") /\ Truthy(result) /\ result.t = "str"
              THEN Ok(<<TextEvent(result.v \o "\n")>>) ELSE Ok(<<>>)
    [] OTHER ->
         IF Truthy(event_type)
            /\ ~(event_type.t = "str"
                 /\ event_type.v \in {"message_start", "message_delta",
                                      "message_stop"})
           THEN Ok(<<ToolEvent("[" \o Str(event_type) \o "] "
                     \o SubSeq(dumped, 1, IF Len(dumped) < DumpCut
                                            THEN Len(dumped) ELSE DumpCut)
                     \o "\n")>>)
           ELSE Ok(<<>>)

\* ------------------------------------------------------------ the engine
\* n copies of x
RECURSIVE Rep(_, _)
Rep(x, n) ==
  IF n = 0 THEN ""
  ELSE LET h == Rep(x, n \div 2)
       IN IF n % 2 = 0 THEN h \o h ELSE h \o h \o x

\* a tool output of n characters, n >= 1, that ends in "z"
Payload(n) == Rep("a", n - 1) \o "z"

\* protocol records, as the line the engine writes and as json.loads reads it;
\* esc is the text as it stands between the quotes of the line
TextDelta(text, esc) ==
  [raw |-> "{\"type\": \"content_block_delta\", \"delta\": {\"type\": \"text_delta\", \"text\": \""
             \o esc \o "\"}}",
   json |-> JDict([type |-> JStr("content_block_delta"),
                   delta |-> JDict([type |-> JStr("text_delta"),
                                    text |-> JStr(text)])])]

\* a string, and a list of one string, as JSON text
Quoted(x) == "\"" \o x \o "\""
Listed(x) == "[" \o Quoted(x) \o "]"

\* tool results: raw is the JSON text of the value content
ToolResult(raw, content) ==
  [raw |-> "{\"type\": \"tool_result\", \"content\": " \o raw \o "}",
   json |-> JDict([type |-> JStr("tool_result"), content |-> content])]

UserToolResult(raw, content) ==
  [raw |-> "{\"type\": \"user\", \"message\": {\"content\": [{\"type\": \"tool_result\", \"content\": "
             \o raw \o "}]}}",
   json |-> JDict([type |-> JStr("user"),
                   message |-> JDict([content |-> JList(<<
                     JDict([type |-> JStr("tool_result"),
                            content |-> content])>>)])])]

Result(subtype, result) ==
  [raw |-> "{\"type\": \"result\", \"subtype\": \"" \o subtype
             \o "\", \"result\": \"" \o result \o "\"}",
   json |-> JDict([type |-> JStr("result"), subtype |-> JStr(subtype),
                   result |-> JStr(result)])]

\* an assistant message of a text block and a tool_use block
Assistant(text, command) ==
  [raw |-> "{\"type\": \"assistant\", \"message\": {\"content\": [{\"type\": \"text\", \"text\": \""
             \o text \o "\"}, {\"type\": \"tool_use\", \"name\": \"Bash\", \"input\": {\"command\": \""
             \o command \o "\"}}]}}",
   json |-> JDict([type |-> JStr("assistant"),
                   message |-> JDict([content |-> JList(<<
                     JDict([type |-> JStr("text"), text |-> JStr(text)]),
                     JDict([type |-> JStr("tool_use"), name |-> JStr("Bash"),
                            input |-> JDict([command |-> JStr(command)])])>>)])])]

\* the lines the engine may write: a blank one, text that is no JSON, JSON
\* that is no object, and protocol records
Units ==
  { [raw |-> "", json |-> NotJson],
    [raw |-> " plain text", json |-> NotJson],
    [raw |-> "42", json |-> JInt("42")],
    TextDelta("hi", "hi"),
    TextDelta(" x\n", " x\\n"),
    TextDelta("", ""),
    [raw |-> "{\"type\": \"tool_use\", \"name\": \"Bash\", \"input\": {\"command\": \"ls\"}}",
     json |-> JDict([type |-> JStr("tool_use"), name |-> JStr("Bash"),
                     input |-> JDict([command |-> JStr("ls")])])],
    ToolResult(Quoted(Payload(TruncateAt + 1)), JStr(Payload(TruncateAt + 1))),
    ToolResult(Quoted(Payload(TruncateAt)), JStr(Payload(TruncateAt))),
    ToolResult(Quoted(""), JStr("")),
    UserToolResult(Quoted(Payload(TruncateAt + 1)), JStr(Payload(TruncateAt + 1))),
    UserToolResult(Quoted("ok"), JStr("ok")),
    UserToolResult(Listed(Payload(TruncateAt + 1)),
                   JList(<<JStr(Payload(TruncateAt + 1))>>)),
    Assistant("hi", "ls"),
    Result("success", "hi"),
    Result("error_during_execution", "hi") }

\* the engine writes a line to its standard output
EngEmit(u) ==
  /\ engine.state = "alive"
  /\ engine.sent < MaxUnits
  /\ engine' = [engine EXCEPT !.pipe = Append(@, u), !.sent = @ + 1]
  /\ UNCHANGED <<brain, gen, events, answer>>
  /\ UNCHANGED <<supVars, loop>>

\* the engine ends, by itself or by the signal; its output ends with it
EngExit ==
  /\ engine.state = "alive"
  /\ engine' = [engine EXCEPT !.state = "dead"]
  /\ UNCHANGED <<brain, gen, events, answer>>
  /\ UNCHANGED <<supVars, loop>>

\* ------------------------------------------------------------ the driver
\* send() is called: a generator is made, none of its body has run
Send ==
  /\ gen.pc \in {"idle", "closed"}
  /\ gen.req < MaxRequests
  /\ gen' = [NoGen EXCEPT !.pc = "called", !.req = gen.req + 1]
  /\ events' = <<>>
  /\ brain' = [brain EXCEPT !.asked = FALSE]
  /\ UNCHANGED <<engine, answer>>
  /\ UNCHANGED <<supVars, loop>>

\* line 53: self._interrupted = False
Start ==
  /\ gen.pc = "called"
  /\ brain' = [brain EXCEPT !.interrupted = FALSE]
  /\ gen' = [gen EXCEPT !.pc = "spawn"]
  /\ UNCHANGED <<engine, events, answer>>
  /\ UNCHANGED <<supVars, loop>>

SpawnOutcomes == {"started", "not found", "fault"}
SpawnFault == "[Errno 13] Permission denied: 'claude'"

\* lines 68-75: subprocess.Popen; lines 101-106 when the command is missing
Spawn(outcome) ==
  /\ gen.pc = "spawn"
  /\ outcome \in SpawnOutcomes
  /\ CASE outcome = "started" ->
            /\ brain' = [brain EXCEPT !.process = TRUE]
            /\ engine' = [NoEngine EXCEPT !.state = "alive"]
            /\ gen' = [gen EXCEPT !.pc = "read"]
            /\ events' = events
       [] outcome = "not found" ->
            /\ events' = Append(events, NotFoundEvent)
            /\ gen' = [gen EXCEPT !.pc = "finally"]
            /\ UNCHANGED <<brain, engine>>
       [] OTHER ->
            /\ gen' = [gen EXCEPT !.pc = "raise", !.err = SpawnFault]
            /\ UNCHANGED <<brain, engine, events>>
  /\ UNCHANGED answer
  /\ UNCHANGED <<supVars, loop>>

\* lines 78-81: the next line of the engine's output, and the interrupt check
Read ==
  /\ gen.pc = "read"
  /\ engine.pipe # <<>>
  /\ engine' = [engine EXCEPT !.pipe = Tail(@)]
  /\ IF brain.interrupted
       THEN /\ events' = Append(events, InterruptedEvent)
            /\ gen' = [gen EXCEPT !.pc = "wait"]
       ELSE /\ events' = events
            /\ gen' = [gen EXCEPT !.pc = "decode", !.unit = Head(engine.pipe)]
  /\ UNCHANGED <<brain, answer>>
  /\ UNCHANGED <<supVars, loop>>

\* line 78: the engine's output has ended
Eof ==
  /\ gen.pc = "read"
  /\ engine.pipe = <<>>
  /\ engine.state = "dead"
  /\ gen' = [gen EXCEPT !.pc = "wait"]
  /\ UNCHANGED <<brain, engine, events, answer>>
  /\ UNCHANGED <<supVars, loop>>

\* lines 83-94: strip, skip a blank line, json.loads, _parse_stream_event
Decode ==
  /\ gen.pc = "decode"
  /\ LET line == Strip(gen.unit.raw) IN
     IF line = ""
       THEN /\ gen' = [gen EXCEPT !.pc = "read", !.unit = NoUnit]
            /\ events' = events
     ELSE IF gen.unit.json.t = "invalid"
       THEN /\ gen' = [gen EXCEPT !.pc = "read", !.unit = NoUnit]
            /\ events' = Append(events, TextEvent(line \o "\n"))
     ELSE LET r == ParseStreamEvent(gen.unit.json, line) IN
          /\ gen' = [gen EXCEPT !.pc = "emit", !.queue = r.evs, !.err = r.err]
          /\ events' = events
  /\ UNCHANGED <<brain, engine, answer>>
  /\ UNCHANGED <<supVars, loop>>

\* a consumer handed the last event of the record first
EmitLast ==
  /\ gen.pc = "emit"
  /\ gen.queue # <<>>
  /\ events' = Append(events, gen.queue[Len(gen.queue)])
  /\ gen' = [gen EXCEPT !.queue = SubSeq(@, 1, Len(@) - 1)]
  /\ UNCHANGED <<brain, engine, answer>>
  /\ UNCHANGED <<supVars, loop>>

\* lines 90-91: yield stream_event
Emit ==
  /\ gen.pc = "emit"
  /\ gen.queue # <<>>
  /\ events' = Append(events, Head(gen.queue))
  /\ gen' = [gen EXCEPT !.queue = Tail(@)]
  /\ UNCHANGED <<brain, engine, answer>>
  /\ UNCHANGED <<supVars, loop>>

\* the decoder has no more events: it returned, or it raised
EmitEnd ==
  /\ gen.pc = "emit"
  /\ gen.queue = <<>>
  /\ gen' = IF gen.err = "" THEN [gen EXCEPT !.pc = "read", !.unit = NoUnit]
                            ELSE [gen EXCEPT !.pc = "raise", !.unit = NoUnit]
  /\ UNCHANGED <<brain, engine, events, answer>>
  /\ UNCHANGED <<supVars, loop>>

\* a handler that goes on reading after its error event
RaiseAndResume ==
  /\ gen.pc = "raise"
  /\ events' = Append(events, ErrorEvent(gen.err))
  /\ gen' = [gen EXCEPT !.pc = IF brain.process THEN "read" ELSE "finally",
                         !.err = ""]
  /\ UNCHANGED <<brain, engine, answer>>
  /\ UNCHANGED <<supVars, loop>>

\* lines 107-112: except Exception
Raise ==
  /\ gen.pc = "raise"
  /\ events' = Append(events, ErrorEvent(gen.err))
  /\ gen' = [gen EXCEPT !.pc = "finally", !.err = ""]
  /\ UNCHANGED <<brain, engine, answer>>
  /\ UNCHANGED <<supVars, loop>>

\* line 96: self.process.wait()
Wait ==
  /\ gen.pc = "wait"
  /\ engine.state = "dead"
  /\ engine' = [NoEngine EXCEPT !.state = "reaped"]
  /\ gen' = [gen EXCEPT !.pc = "final"]
  /\ UNCHANGED <<brain, events, answer>>
  /\ UNCHANGED <<supVars, loop>>

\* lines 98-99: the done event, unless interrupted
Final ==
  /\ gen.pc = "final"
  /\ events' = IF brain.interrupted THEN events ELSE Append(events, DoneEvent)
  /\ gen' = [gen EXCEPT !.pc = "finally"]
  /\ UNCHANGED <<brain, engine, answer>>
  /\ UNCHANGED <<supVars, loop>>

\* lines 113-114: finally: self.process = None; the generator is exhausted
Finally ==
  /\ gen.pc = "finally"
  /\ brain' = [brain EXCEPT !.process = FALSE]
  /\ gen' = [gen EXCEPT !.pc = "closed"]
  /\ UNCHANGED <<engine, events, answer>>
  /\ UNCHANGED <<supVars, loop>>

\* interrupt(), lines 123-124, called from the signal handler or from another
\* thread: the flag, then the test of self.process
InterruptBegin ==
  /\ answer # "calling"
  /\ brain' = [brain EXCEPT !.interrupted = TRUE, !.asked = TRUE]
  /\ answer' = IF brain.process THEN "calling" ELSE "False"
  /\ UNCHANGED <<gen, engine, events>>
  /\ UNCHANGED <<supVars, loop>>

\* interrupt(), lines 125-131: os.killpg(os.getpgid(self.process.pid), SIGTERM).
\* self.process is read again: AttributeError when send has released it
\* meanwhile, ProcessLookupError when the engine was reaped.
InterruptSignal ==
  /\ answer = "calling"
  /\ IF ~brain.process
       THEN /\ answer' = "AttributeError"
            /\ engine' = engine
     ELSE IF engine.state \in {"alive", "dead"}
       THEN /\ engine' = [engine EXCEPT !.sig = TRUE]
            /\ answer' = "True"
       ELSE /\ engine' = engine
            /\ answer' = "False"
  /\ UNCHANGED <<brain, gen, events>>
  /\ UNCHANGED <<supVars, loop>>

DriverNext ==
  \/ Send \/ Start
  \/ \E o \in SpawnOutcomes : Spawn(o)
  \/ Read \/ Eof \/ Decode \/ Emit \/ EmitEnd \/ Raise
  \/ Wait \/ Final \/ Finally
  \/ InterruptBegin \/ InterruptSignal
  \/ \E u \in Units : EngEmit(u)
  \/ EngExit

DriverSpec == Init /\ [][DriverNext]_vars

\* ------------------------------------------------------ specification
Worker(p) ==
  \/ WOpen(p) \/ WLine(p) \/ WWait(p) \/ WCheck(p) \/ WLookup(p)
  \/ WSetCode(p) \/ WSetStatus(p) \/ WSnap(p) \/ WWrite(p)
  \/ WTrailer(p) \/ WError(p)

Launch == \E r \in Requests : RunBegin(r.command, r.name, r.callback)

Environment ==
  \/ \E p \in Pids : Worker(p)
  \/ \E p \in Pids, c \in ExitCodes \cup {-SIGTERM} : ProcExit(p, c)

Foreground ==
  \/ MainSnap \/ MainWrite \/ RunStart \/ Return
  \/ \E i \in ArgIds : KillRefuse(i)
  \/ \E i \in ArgIds : KillBegin(i)
  \/ \E o \in KillOutcomes : KillSignal(o)
  \/ KillSet \/ KillTrailerStep \/ KillExcept
  \/ \E i \in ArgIds : GetStatusNow(i)
  \/ \E i \in ArgIds : GetStatusProbe(i)
  \/ GetStatusSet
  \/ \E op \in CheckOps : CheckRunningBegin(op)
  \/ CheckRunningNext \/ CheckRunningSet \/ CheckRunningReturn
  \/ \E k \in BOOLEAN : CleanupBegin(k)
  \/ \E i \in ArgIds : MarkReviewedBegin(i)
  \/ \E i \in ArgIds : MarkReviewedUnknown(i)
  \/ Restart

\* a launch while fewer than MaxSolo were made
SoloLaunch ==
  \E r \in Requests :
    nextPid <= MaxSolo /\ RunBegin(r.command, r.name, r.callback)

\* every operation of the supervisor that changes a record, on at most MaxSolo
\* launches
Next ==
  \/ SoloLaunch
  \/ Foreground
  \/ Environment

Spec == Init /\ [][Next]_vars

\* concurrent jobs: launches, their capture workers and cleanup
\* a launch while fewer than MaxPair were made
PairLaunch ==
  \E r \in Requests :
    nextPid <= MaxPair /\ RunBegin(r.command, r.name, r.callback)

PairNext ==
  \/ PairLaunch
  \/ MainSnap \/ MainWrite \/ RunStart \/ Return
  \/ \E k \in BOOLEAN : CleanupBegin(k)
  \/ Environment

PairSpec == Init /\ [][PairNext]_vars

\* one job, its worker, kill, cleanup and the reading of logs
OutNext ==
  \/ SoloLaunch
  \/ MainSnap \/ MainWrite \/ RunStart \/ Return
  \/ \E i \in ArgIds : KillRefuse(i)
  \/ \E i \in ArgIds : KillBegin(i)
  \/ \E o \in KillOutcomes : KillSignal(o)
  \/ KillSet \/ KillTrailerStep \/ KillExcept
  \/ \E k \in BOOLEAN : CleanupBegin(k)
  \/ \E i \in ArgIds, t \in TailLines : GetOutput(i, t)
  \/ Environment

OutSpec == Init /\ [][OutNext]_vars

\* launches, kills, reviews and cleanups of up to MaxLaunches jobs, seen before
\* any of the jobs exits and before any capture worker is scheduled
IdNext ==
  \/ Launch
  \/ MainSnap \/ MainWrite \/ RunStart \/ Return
  \/ \E k \in BOOLEAN : CleanupBegin(k)
  \/ \E i \in ArgIds : KillRefuse(i)
  \/ \E i \in ArgIds : KillBegin(i)
  \/ \E o \in KillOutcomes : KillSignal(o)
  \/ KillSet \/ KillTrailerStep \/ KillExcept
  \/ \E i \in ArgIds : MarkReviewedBegin(i)
  \/ \E i \in ArgIds : MarkReviewedUnknown(i)

IdSpec == Init /\ [][IdNext]_vars

\* one job and the operations that save the index, on a disk that may refuse
\* the write
FailNext ==
  \/ SoloLaunch
  \/ MainSnap \/ MainWrite \/ RunStart \/ Return
  \/ \E e \in SaveErrors : MainWriteFails(e)
  \/ \E i \in ArgIds : KillRefuse(i)
  \/ \E i \in ArgIds : KillBegin(i)
  \/ \E o \in KillOutcomes : KillSignal(o)
  \/ KillSet \/ KillTrailerStep \/ KillExcept
  \/ \E k \in BOOLEAN : CleanupBegin(k)
  \/ \E i \in ArgIds : MarkReviewedBegin(i)
  \/ \E i \in ArgIds : MarkReviewedUnknown(i)
  \/ \E p \in Pids, e \in SaveErrors : WWriteFails(p, e)
  \/ \E p \in Pids : WSaveError(p)
  \/ Environment

FailSpec == Init /\ [][FailNext]_vars

\* the steps by which a call of the foreground thread goes on once begun
Continue ==
  \/ MainSnap \/ MainWrite \/ RunStart \/ Return
  \/ \E o \in KillOutcomes : KillSignal(o)
  \/ KillSet \/ KillTrailerStep \/ KillExcept
  \/ CheckRunningNext \/ CheckRunningSet \/ CheckRunningReturn

\* one job, its worker, kill, mark_reviewed, cleanup, restarts, and a
\* conversation loop that asks for the pending callbacks
LiveNext ==
  \/ SoloLaunch
  \/ Continue
  \/ \E i \in ArgIds : KillRefuse(i)
  \/ \E i \in ArgIds : KillBegin(i)
  \/ CheckRunningBegin("pending")
  \/ \E k \in BOOLEAN : CleanupBegin(k)
  \/ \E i \in ArgIds : MarkReviewedBegin(i)
  \/ \E i \in ArgIds : MarkReviewedUnknown(i)
  \/ Restart
  \/ Environment

\* the threads are scheduled: a capture worker that can take a step takes it,
\* a call that was begun goes on, and the loop of main.py (lines 66-69) asks
\* for the pending callbacks again and again
LiveSpec ==
  /\ Init /\ [][LiveNext]_vars
  /\ \A p \in Pids : WF_vars(Worker(p))
  /\ WF_vars(Continue)
  /\ SF_vars(CheckRunningBegin("pending"))

\* ------------------------------------------------- the conversation loop
\* main.py, the steps of Codeloom.run between its calls of the supervisor.
\* Each call is made where loop.pc says and is taken note of at its return:
\*   "top"   line 69: _check_process_callbacks calls get_pending_callbacks
\*           (line 174) and iterates over the list it returned
\*   "for"   line 180: get_callback_message(proc) for the next record; with no
\*           record left the loop goes on to input() (line 81)
\*   "mark"  line 183: mark_reviewed(proc.id)
\*   "send"  line 186: _send_message(callback_msg).  Its call
\*           self.brain.send(message, history, profile_context) (line 129)
\*           passes three arguments to send(self, message, conversation_history)
\*           of brain.py, line 42: the call raises TypeError before the driver
\*           is entered, nothing in run catches it (lines 94-100) and the
\*           program ends
\*   "input" lines 81-92: an empty line goes round, a command launches a job
\*           or cleans up (lines 361 and 391), a message is sent as above and
\*           ends the program the same way
\*   "exit"  the program has ended; it is started again
ConversationLoop ==
  /\ \/ /\ loop.pc = "top"
        /\ main.pc = "return" /\ main.op = "pending"
        /\ loop' = [loop EXCEPT !.pc = "for", !.todo = PidOrder(main.val, 1)]
     \/ /\ loop.pc = "for"
        /\ main.pc = "idle" /\ loop.todo = <<>>
        /\ loop' = [loop EXCEPT !.pc = "input"]
     \/ /\ loop.pc = "for"
        /\ main.pc = "return" /\ main.op = "get_callback_message"
        /\ loop' = [loop EXCEPT !.pc = "mark"]
     \/ /\ loop.pc = "mark"
        /\ main.pc = "return" /\ main.op = "mark_reviewed"
        /\ loop' = [loop EXCEPT !.pc = "send"]
     \/ /\ loop.pc = "send"
        /\ main.pc = "idle"
        /\ loop' = [loop EXCEPT !.pc = "exit", !.todo = <<>>,
                                !.sent[Head(loop.todo)] = IF @ < 2 THEN @ + 1 ELSE @]
     \/ /\ loop.pc = "input"
        /\ main.pc = "idle"
        /\ loop' = [loop EXCEPT !.pc = "top"]
     \/ /\ loop.pc = "input"
        /\ main.pc = "return" /\ main.op \in {"run", "cleanup"}
        /\ loop' = [loop EXCEPT !.pc = "top"]
     \/ /\ loop.pc = "input"
        /\ main.pc = "idle"
        /\ loop' = [loop EXCEPT !.pc = "exit"]
     \/ /\ loop.pc = "exit"
        /\ main.pc = "return" /\ main.op = "startup"
        /\ loop' = [loop EXCEPT !.pc = "top"]
  /\ UNCHANGED drvVars
  /\ UNCHANGED supVars

\* the conversation loop over one job: the calls the loop makes, each where the
\* loop stands, the launches of the supervisor's interface (main.py, lines 210
\* and 361), the cleanup of finished jobs, the job and its capture worker
LoopNext ==
  \/ ConversationLoop
  \/ loop.pc = "top" /\ CheckRunningBegin("pending")
  \/ CheckRunningNext \/ CheckRunningSet \/ CheckRunningReturn
  \/ loop.pc = "for" /\ loop.todo # <<>> /\ GetCallbackMessage(Head(loop.todo))
  \/ loop.pc = "mark" /\ MarkReviewedBegin(ObjOf(processes, Head(loop.todo)).id)
  \/ loop.pc = "input" /\ SoloLaunch
  \/ loop.pc = "input" /\ CleanupBegin(TRUE)
  \/ loop.pc = "exit" /\ Restart
  \/ MainSnap \/ MainWrite \/ RunStart
  \/ /\ ~(loop.pc = "top" /\ main.op = "pending")
     /\ ~(loop.pc = "for" /\ main.op = "get_callback_message")
     /\ ~(loop.pc = "mark" /\ main.op = "mark_reviewed")
     /\ ~(loop.pc = "input" /\ main.op \in {"run", "cleanup"})
     /\ ~(loop.pc = "exit" /\ main.op = "startup")
     /\ Return
  \/ Environment

LoopSpec == Init /\ [][LoopNext]_vars

\* ================================================================ claims
\* the indices of the terminal events of a sequence
Terminals(evs) == {i \in 1..Len(evs) : evs[i].is_done}

\* C1: every tracked record has an exit code exactly if its status is completed
\* or failed, and none while its status is running, in every reachable state,
\* the capture worker's intermediate states included.
C1_ExitCodeIffFinished ==
  \A i \in DOMAIN processes :
    /\ processes[i].exit_code # {} <=> processes[i].status \in {"completed", "failed"}
    /\ processes[i].status = "running" => processes[i].exit_code = {}

\* C2: no event follows a terminal event, and when the request has ended the
\* caller has received exactly one terminal event, as the last one.
C2_OneTerminalEventLast ==
  /\ \A i \in Terminals(events) : i = Len(events)
  /\ gen.pc = "closed" => Terminals(events) = {Len(events)}

\* C3: every job get_pending_callbacks returns has left running and was never
\* marked reviewed.
C3_PendingNeverReviewed ==
  (main.pc = "return" /\ main.op = "pending") =>
    \A p \in main.val :
      /\ p \notin marked
      /\ HasObj(processes, p) /\ ObjOf(processes, p).status # "running"

NotRunning(procs) == {i \in DOMAIN procs : procs[i].status # "running"}

\* C5: cleanup(keep_running=True) removes exactly the records that are not
\* running and their logs, leaves the running records and every other log as
\* they are, and returns the number of log files it deleted.
C5_CleanupKeepsRunning ==
  [][(main.pc = "idle" /\ main'.op = "cleanup" /\ main'.id = "keep")
     => /\ DOMAIN processes' = (DOMAIN processes) \ NotRunning(processes)
        /\ \A i \in DOMAIN processes' : processes'[i] = processes[i]
        /\ DOMAIN logs' = (DOMAIN logs) \ NotRunning(processes)
        /\ \A i \in DOMAIN logs' : logs'[i] = logs[i]
        /\ main'.n = Cardinality((DOMAIN logs) \ DOMAIN logs')]_vars

\* C6: decoding a line that is not blank and is no JSON object appends exactly
\* one plain event, the line and a newline, and the driver reads on.
C6_NonRecordUnitIsText ==
  [][(gen.pc = "decode" /\ gen'.pc # "decode"
      /\ Strip(gen.unit.raw) # "" /\ gen.unit.json.t # "dict")
     => /\ events' = Append(events, TextEvent(Strip(gen.unit.raw) \o "\n"))
        /\ gen'.pc = "read"]_vars

\* C7: run returns only after its own write of the index, and that write
\* leaves in the index the record of the launch: the id made of the name, the
\* command, the working directory and the callback flag asked for, status
\* running, not reviewed.
C7_LaunchPersistsRecord ==
  [][/\ (main'.pc = "return" /\ main'.op = "run" /\ main.pc # "return")
          => main.pc = "run_start"
     /\ (main'.pc = "run_start" /\ main.pc # "run_start")
          => /\ main.pc = "write" /\ main.op = "run"
             /\ main.id \in DOMAIN disk'
             /\ disk'[main.id] = ProcessInfo(main.id, main.ref,
                                   main.args.command, main.args.callback)
             /\ SubSeq(main.id, 1, Len(main.args.name)) = main.args.name]_vars

\* C8: whatever the state of the launched process, the next step of a run in
\* progress can be taken: no step of run waits for the process.
C8_LaunchNeverWaits ==
  (main.op = "run" /\ main.pc # "return")
    => ENABLED (MainSnap \/ MainWrite \/ RunStart)

\* run has returned and the process it launched is still alive
C8_ReturnedWhileAlive ==
  /\ main.pc = "return" /\ main.op = "run"
  /\ \E p \in main.val : os[p].state = "alive"

\* C9: a kill whose killpg raises nothing has delivered the signal, then
\* sets the record's status to killed, then rewrites the index from the
\* records as they are, then appends the kill trailer to the job's log and
\* returns True.
C9_KillSignalsAndRecords ==
  [][/\ (main.pc = "kill_sig" /\ main'.pc \notin {"kill_sig", "kill_exc"})
          => os'[main.ref].sig /\ main'.pc = "kill_set"
     /\ (main.pc = "kill_set" /\ main'.pc # "kill_set")
          => /\ HasObj(processes', main.ref)
             /\ ObjOf(processes', main.ref).status = "killed"
             /\ main'.pc = "snap" /\ main'.op = "kill"
     /\ (main.op = "kill" /\ main.pc = "snap" /\ main'.pc # "snap")
          => main'.pc = "write" /\ main'.snap = processes
     /\ (main.op = "kill" /\ main.pc = "write" /\ main'.pc # "write")
          => disk' = main.snap /\ main'.pc = "kill_trailer"
     /\ (main.pc = "kill_trailer" /\ main'.pc # "kill_trailer")
          => /\ main.id \in DOMAIN logs'
             /\ logs'[main.id].lines =
                  Append(IF main.id \in DOMAIN logs
                           THEN logs[main.id].lines ELSE <<>>, KillTrailer)
             /\ main'.pc = "return" /\ main'.op = "kill"
             /\ main'.ret = "True"]_vars

\* kill has returned True: the record and the index say killed, the log ends
\* with the kill trailer
C9_KilledAndLogged ==
  /\ main.pc = "return" /\ main.op = "kill" /\ main.ret = "True"
  /\ main.id \in DOMAIN processes /\ processes[main.id].status = "killed"
  /\ main.id \in DOMAIN disk /\ disk[main.id].status = "killed"
  /\ main.id \in DOMAIN logs
  /\ logs[main.id].lines[Len(logs[main.id].lines)] = KillTrailer

\* C10: a kill of an id that is not tracked, or of a record that is completed,
\* failed or killed, returns False in one step that changes no record, nor the
\* index, nor any log.
C10_KillRefusedChangesNothing ==
  [][(main.pc = "idle" /\ main'.op = "kill"
      /\ (main'.id \notin DOMAIN processes
          \/ processes[main'.id].status \in {"completed", "failed", "killed"}))
     => /\ main'.pc = "return" /\ main'.ret = "False"
        /\ UNCHANGED <<processes, disk, logs>>]_vars

\* kill of a completed job has returned False
C10_FinishedJobNotKilled ==
  /\ main.pc = "return" /\ main.op = "kill" /\ main.ret = "False"
  /\ main.id \in DOMAIN processes
  /\ processes[main.id].status = "completed"
  /\ processes[main.id].exit_code = {0}

\* C11: a kill that finds no process sets the status to completed and returns
\* False, and only a kill that found no process does so.
C11_KillLookupFailure ==
  [][/\ (main.pc = "kill_sig" /\ main'.pc # "kill_sig"
         /\ os[main.ref].state = "gone")
          => main'.pc = "kill_exc"
     /\ (main.pc = "kill_exc" /\ main'.pc # "kill_exc")
          => /\ HasObj(processes', main.ref)
             /\ ObjOf(processes', main.ref).status = "completed"
             /\ os[main.ref].state = "gone"
     /\ (main.op = "kill_exc" /\ main.pc = "write" /\ main'.pc # "write")
          => main'.pc = "return" /\ main'.ret = "False"]_vars

\* C12: once the capture worker of an exited job has set the exit code and the
\* status, persisted the index and reached the trailer, the persisted record of
\* that job carries the exit code and the status completed (code 0) or failed,
\* unless the job was killed or cleaned up; the worker then ends by appending
\* the exit trailer.
C12_ExitPersisted ==
  [][\A p \in Pids :
       /\ (wk'[p].pc = "trailer" /\ HasObj(processes', p)
           /\ ObjOf(processes', p).status # "killed")
            => /\ HasObj(disk', p)
               /\ ObjOf(disk', p).exit_code = {wk'[p].rc}
               /\ ObjOf(disk', p).status = ExitStatus(wk'[p].rc)
       /\ (wk[p].pc = "trailer" /\ wk'[p].pc = "done")
            => /\ wk[p].id \in DOMAIN logs'
               /\ logs'[wk[p].id].lines[Len(logs'[wk[p].id].lines)]
                    = ExitTrailer(wk[p].rc)]_vars

\* C13: a tracked record is reviewed only if its status is not running, in
\* every reachable state, a mark_reviewed of a running job included.
C13_ReviewedOnlyWhenFinished ==
  \A i \in DOMAIN processes :
    processes[i].reviewed => processes[i].status # "running"

\* C14: get_pending_callbacks returns, after its reconciliation, exactly the
\* tracked records that ask for a callback, are not reviewed and are completed,
\* failed or killed; a job without callback is never returned.
C14_PendingExact ==
  [][(main.pc = "cr_next" /\ main.op = "pending" /\ main'.pc = "return")
       => /\ main.todo = <<>>
          /\ main'.val =
               {processes[i].pid : i \in {j \in DOMAIN processes :
                  /\ processes[j].callback
                  /\ ~processes[j].reviewed
                  /\ processes[j].status \in {"completed", "failed", "killed"}}}]_vars

\* get_pending_callbacks has returned a killed job
C14_KilledJobPending ==
  /\ main.pc = "return" /\ main.op = "pending"
  /\ \E i \in DOMAIN processes :
       /\ processes[i].pid \in main.val
       /\ processes[i].status = "killed"
       /\ processes[i].callback /\ ~processes[i].reviewed

\* C15: a mark_reviewed of a tracked id ends with the record reviewed; a second
\* mark_reviewed of the same id, made when no job and no worker has been active
\* since the first returned, changes neither the record nor the persisted
\* index; a mark_reviewed of an untracked id returns False and changes nothing.
C15_MarkReviewedIdempotent ==
  [][/\ (main.op = "mark_reviewed" /\ main.pc = "return" /\ main.ret = "True")
          => main.id \in DOMAIN processes /\ processes[main.id].reviewed
     /\ (main.pc = "idle" /\ main'.op = "mark_reviewed"
         /\ main'.ret # "False" /\ last.op = "mark_reviewed"
         /\ last.ret = "True" /\ last.id = main'.id /\ last.quiet)
          => processes' = processes
     /\ (main.op = "mark_reviewed" /\ main.pc = "write" /\ main'.pc = "return"
         /\ last.op = "mark_reviewed" /\ last.ret = "True"
         /\ last.id = main.id /\ last.quiet)
          => disk' = disk
     /\ (main.pc = "idle" /\ main'.op = "mark_reviewed" /\ main'.ret = "False")
          => /\ main'.id \notin DOMAIN processes
             /\ processes' = processes /\ disk' = disk /\ logs' = logs]_vars

\* the id base_id_k
WithSuffix(base_id, k) == base_id \o "_" \o ToString(k)

\* C16: every tracked record is filed under its own id; a launch named n files
\* the new record under n if n is untracked, else under n_k for the smallest
\* k >= 1 with n_k untracked, and leaves every existing record as it was; no
\* step changes the id of a record that stays tracked.
C16_IdsUniqueImmutable ==
  [][/\ \A i \in DOMAIN processes' : processes'[i].id = i
     /\ \A i \in DOMAIN processes, j \in DOMAIN processes' :
          processes[i].pid = processes'[j].pid => i = j
     /\ (main.pc = "idle" /\ main'.op = "run")
          => LET n == main'.args.name
                 id == main'.id
             IN /\ id \notin DOMAIN processes
                /\ DOMAIN processes' = DOMAIN processes \cup {id}
                /\ \A i \in DOMAIN processes : processes'[i] = processes[i]
                /\ n \notin DOMAIN processes => id = n
                /\ n \in DOMAIN processes =>
                     \E k \in 1..MaxLaunches :
                       /\ id = WithSuffix(n, k)
                       /\ \A j \in 1..(k - 1) :
                            WithSuffix(n, j) \in DOMAIN processes]_vars

\* a launch named "a" was filed under "a_2" because "a" and "a_1" are tracked
C16_SecondSuffix ==
  /\ main.op = "run" /\ main.args.name = "a" /\ main.id = "a_2"
  /\ {"a", "a_1", "a_2"} \subseteq DOMAIN processes

C18_CleanupRemoves ==
  [][LET removed == DOMAIN processes \ DOMAIN processes' IN
     /\ (main.pc = "idle" /\ main'.op = "cleanup")
          => /\ main'.id = "all" => processes' = Empty
             /\ removed \cap DOMAIN logs' = {}
             /\ main'.n = Cardinality(removed)
             /\ \A i \in DOMAIN processes' :
                  i \in DOMAIN processes /\ processes'[i] = processes[i]
     /\ (main.op = "cleanup" /\ main.id = "all" /\ main'.pc = "return")
          => processes' = Empty /\ logs' = Empty
     /\ removed # {} => main.pc = "idle" /\ main'.op = "cleanup"]_vars

\* the number of lines of a text, an unterminated last line included
LineCount(x) ==
  CountNewlines(x)
    + (IF x # "" /\ SubSeq(x, Len(x), Len(x)) # "\n" THEN 1 ELSE 0)

\* C19: get_output returns None for an id without log; with tail 0 it returns
\* the whole log; with tail N > 0 it returns the whole log when the log has at
\* most N lines, and else the end of the log from the start of its N-th line
\* from the end.
C19_GetOutputTail ==
  [][(main.pc = "idle" /\ main'.op = "get_output")
       => LET id == main'.id
              N == main'.n
              out == main'.text
          IN /\ id \notin DOMAIN logs <=> main'.ret = "None"
             /\ id \in DOMAIN logs =>
                  LET log == Join(logs[id].lines)
                      from == Len(log) - Len(out)
                  IN /\ N = 0 => out = log
                     /\ (N > 0 /\ LineCount(log) <= N) => out = log
                     /\ (N > 0 /\ LineCount(log) > N) =>
                          /\ LineCount(out) = N
                          /\ from > 0
                          /\ out = SubSeq(log, from + 1, Len(log))
                          /\ SubSeq(log, from, from) = "\n"]_vars

\* get_output(id, 3) has returned the last three lines of a killed job's log
C19_LastThreeLines ==
  /\ main.pc = "return" /\ main.op = "get_output" /\ main.n = 3
  /\ main.id \in DOMAIN logs
  /\ LineCount(Join(logs[main.id].lines)) > 3
  /\ main.text = OutLine(1) \o Rule \o "Killed: " \o Now \o "\n"

\* C20: while a request that was interrupted reads and decodes, the engine's
\* process group has been signalled once the call of interrupt is over; and a
\* request that ends interrupted,
\* without a done or an error event, has delivered exactly one interrupted
\* event, as its last event.
C20_InterruptEndsInterrupted ==
  /\ (brain.interrupted /\ answer # "calling"
      /\ gen.pc \in {"read", "decode", "emit"}) => engine.sig
  /\ (/\ gen.pc = "closed"
      /\ brain.interrupted
      /\ \A i \in Terminals(events) : events[i] = InterruptedEvent)
       => /\ events # <<>>
          /\ Terminals(events) = {Len(events)}
          /\ events[Len(events)] = InterruptedEvent

\* C21: a call of interrupt returns True or False; it returns True exactly if
\* it signalled the engine of a request whose process the driver holds, it
\* returns False when the driver is idle, and it changes nothing of the driver
\* but the interrupted flag.
C21_InterruptAnswer ==
  [][answer' # answer =>
       /\ gen' = gen /\ events' = events /\ brain'.process = brain.process
       /\ answer' # "calling" =>
            /\ answer' \in {"True", "False"}
            /\ answer' = "True" <=>
                 (brain.process /\ engine.state \in {"alive", "dead"} /\ engine'.sig)
            /\ (gen.pc \in {"idle", "closed"} /\ answer # "calling")
                 => answer' = "False"]_vars

\* C22: a spawn that finds no engine binary delivers one event, an error and
\* terminal event, and nothing else; any other fault adds one error and
\* terminal event to the events delivered so far, none of which is terminal;
\* after either the request only releases the process and ends: no event
\* follows and no engine is started again.
C22_FaultEndsWithOneError ==
  [][/\ (gen.pc = "spawn" /\ events' # events)
          => /\ Len(events') = 1
             /\ events'[1].is_error /\ events'[1].is_done
             /\ gen'.pc = "finally"
     /\ (gen.pc = "raise" /\ gen' # gen)
          => /\ Terminals(events) = {}
             /\ Len(events') = Len(events) + 1
             /\ SubSeq(events', 1, Len(events)) = events
             /\ events'[Len(events')].is_error /\ events'[Len(events')].is_done
             /\ gen'.pc = "finally"
     /\ (gen.pc = "finally" /\ gen' # gen)
          => gen'.pc = "closed" /\ events' = events /\ engine' = engine
     /\ (gen.pc = "closed" /\ gen'.pc = "closed") => events' = events]_vars

\* a request ended by a fault while streaming: an event was delivered, then
\* the error event
C22_FaultAfterEvents ==
  /\ gen.pc = "closed"
  /\ Len(events) >= 2
  /\ events[Len(events)].is_error
  /\ Terminals(events) = {Len(events)}

\* the text of the record j if j is a text delta (content_block_delta with a
\* text_delta that carries a string), else no text
DeltaText(j) ==
  IF /\ j.t = "dict"
     /\ Is(Get(j, "type", JNone), "content_block_delta")
     /\ Get(j, "delta", JNone).t = "dict"
     /\ Is(Get(Get(j, "delta", JNone), "type", JNone), "text_delta")
     /\ Get(Get(j, "delta", JNone), "text", JNone).t = "str"
    THEN {Get(Get(j, "delta", JNone), "text", JNone).v}
    ELSE {}

\* C23: decoding a text delta with a non-empty text t yields exactly one
\* event, with text t and no flag set, and that event is delivered; a text
\* delta with empty text yields no event.
C23_TextDeltaOneEvent ==
  [][/\ (gen.pc = "decode" /\ gen'.pc # "decode")
          => \A t \in DeltaText(gen.unit.json) :
               /\ gen'.err = "" /\ events' = events
               /\ t # "" =>
                    /\ gen'.pc = "emit"
                    /\ gen'.queue = <<[text |-> t, is_tool_call |-> FALSE,
                                       is_error |-> FALSE, is_done |-> FALSE]>>
               /\ t = "" => gen'.queue = <<>>
     /\ (gen.pc = "emit" /\ gen' # gen /\ gen.queue # <<>>)
          => events' = Append(events, Head(gen.queue))
     /\ (gen.pc = "emit" /\ gen' # gen /\ gen.queue = <<>>)
          => events' = events]_vars

\* the text delta " x\n" was delivered as it is
C23_DeltaDelivered ==
  /\ DeltaText(gen.unit.json) = {" x\n"}
  /\ gen.pc = "emit" /\ gen.queue = <<>>
  /\ events # <<>>
  /\ events[Len(events)] = [text |-> " x\n", is_tool_call |-> FALSE,
                            is_error |-> FALSE, is_done |-> FALSE]

\* the truncation marker
Marker == "\n... (truncated)"

\* the tool-result payload of the record j with the prefix its event gets: of a
\* standalone tool_result, or of the tool_result block of a user record
ToolPayload(j) ==
  IF j.t # "dict" THEN {}
  ELSE IF Is(Get(j, "type", JNone), "tool_result")
    THEN {[prefix |-> "", content |-> Get(j, "content", JStr(""))]}
  ELSE IF /\ Is(Get(j, "type", JNone), "user")
          /\ Get(j, "message", JNone).t = "dict"
          /\ Get(Get(j, "message", JNone), "content", JNone).t = "list"
          /\ Len(Get(Get(j, "message", JNone), "content", JNone).v) = 1
    THEN LET block == Get(Get(j, "message", JNone), "content", JNone).v[1]
         IN IF block.t = "dict" /\ Is(Get(block, "type", JNone), "tool_result")
              THEN {[prefix |-> ArrowGlyph \o " ",
                     content |-> Get(block, "content", JStr(""))]}
              ELSE {}
  ELSE {}

\* the text x without the marker it may end with
Unmarked(x) ==
  IF Len(x) >= Len(Marker) /\ SubSeq(x, Len(x) - Len(Marker) + 1, Len(x)) = Marker
    THEN SubSeq(x, 1, Len(x) - Len(Marker)) ELSE x

\* C24: decoding a tool result with a non-empty payload yields one tool-call
\* event: its prefix, the payload part and a newline.  A string payload longer
\* than TruncateAt gives its first TruncateAt characters and the marker, a
\* shorter one gives itself; the payload part never exceeds TruncateAt
\* characters.
C24_ToolResultTruncated ==
  [][(gen.pc = "decode" /\ gen'.pc # "decode")
       => \A p \in ToolPayload(gen.unit.json) :
            Truthy(p.content) =>
              /\ gen'.err = ""
              /\ Len(gen'.queue) = 1
              /\ gen'.queue[1].is_tool_call
              /\ ~gen'.queue[1].is_error /\ ~gen'.queue[1].is_done
              /\ LET text == gen'.queue[1].text
                     body == SubSeq(text, Len(p.prefix) + 1, Len(text) - 1)
                 IN /\ text = p.prefix \o body \o "\n"
                    /\ Len(Unmarked(body)) <= TruncateAt
                    /\ p.content.t = "str" =>
                         IF Len(p.content.v) > TruncateAt
                           THEN body = SubSeq(p.content.v, 1, TruncateAt) \o Marker
                           ELSE body = p.content.v]_vars

\* the content of the final result record j, when it has one
ResultText(j) ==
  IF /\ j.t = "dict"
     /\ Is(Get(j, "type", JNone), "result")
     /\ Get(j, "result", JStr("")).t = "str"
     /\ Get(j, "result", JStr("")).v # ""
    THEN {Get(j, "result", JStr("")).v} ELSE {}

\* the request has delivered the text c already, as a delta or as a message
Streamed(c) ==
  \E i \in 1..Len(events) :
    /\ ~events[i].is_tool_call /\ ~events[i].is_error
    /\ events[i].text \in {c, c \o "\n"}

\* C25: a final result record whose content the request has streamed already
\* yields no event, and one whose content was not streamed yields it as one
\* text event.
C25_ResultOnceOnly ==
  [][(gen.pc = "decode" /\ gen'.pc # "decode")
       => \A c \in ResultText(gen.unit.json) :
            /\ gen'.err = ""
            /\ gen'.queue = IF Streamed(c) THEN <<>> ELSE <<TextEvent(c \o "\n")>>]_vars

\* the events the line u of the engine's output stands for, in block order
UnitEvents(u) ==
  IF Strip(u.raw) = "" THEN <<>>
  ELSE IF u.json.t = "invalid" THEN <<TextEvent(Strip(u.raw) \o "\n")>>
  ELSE ParseStreamEvent(u.json, Strip(u.raw)).evs

\* C26: events reach the consumer one at a time, each after those delivered
\* before it; the driver takes the oldest unread line of the engine, and only
\* when every event of the line before has been delivered; when it has done
\* with a line, the events delivered last are those of that line in block
\* order.
C26_EventsInOrder ==
  /\ [][events' # events =>
          \/ gen.pc \in {"idle", "closed"} /\ gen'.pc = "called" /\ events' = <<>>
          \/ /\ Len(events') = Len(events) + 1
             /\ SubSeq(events', 1, Len(events)) = events]_vars
  /\ [][(gen.pc = "read" /\ gen'.pc = "decode") =>
          /\ gen.queue = <<>>
          /\ gen'.unit = Head(engine.pipe)
          /\ engine'.pipe = Tail(engine.pipe)
          /\ events' = events]_vars
  /\ [][(gen.unit # NoUnit /\ gen'.unit = NoUnit) =>
          LET evs == UnitEvents(gen.unit)
          IN /\ Len(events') >= Len(evs)
             /\ SubSeq(events', Len(events') - Len(evs) + 1, Len(events')) = evs]_vars

\* a message of a text block and a tool call was delivered in block order, and
\* the delta that arrived after it was delivered after it
C26_TwoUnitsDelivered ==
  /\ Len(UnitEvents(Assistant("hi", "ls"))) >= 2
  /\ events = UnitEvents(Assistant("hi", "ls")) \o UnitEvents(TextDelta("hi", "hi"))
  /\ gen.pc = "read"

\* the writes a are the first writes of b
Extends(a, b) == Len(a) <= Len(b) /\ SubSeq(b, 1, Len(a)) = a

\* C27: every step leaves each existing log the same file with its former
\* content as a prefix of the new one, unless the step is the cleanup that
\* removes the log.
C27_LogAppendOnly ==
  [][\A i \in DOMAIN logs :
       \/ /\ i \in DOMAIN logs'
          /\ logs'[i].ino = logs[i].ino
          /\ Extends(logs[i].lines, logs'[i].lines)
       \/ /\ main.pc = "idle" /\ main'.op = "cleanup"
          /\ i \notin DOMAIN logs']_vars

\* the threads inside _save_processes: the index serialised, not yet written
Saving ==
  {p \in Pids : wk[p].pc = "write"} \cup (IF main.pc = "write" THEN {0} ELSE {})

\* C28: at most one thread is inside _save_processes, and while a thread is
\* inside it the record mapping is left as that thread serialised it.
C28_SaveExclusive ==
  /\ Cardinality(Saving) <= 1
  /\ \A p \in Pids : wk[p].pc = "write" => processes = wk[p].snap
  /\ main.pc = "write" => processes = main.snap

\* the record of the launch p as the mapping procs holds it, if it holds it
RecordOf(procs, p) == {procs[i] : i \in {j \in DOMAIN procs : procs[j].pid = p}}

\* the positions of a capture worker inside its exit update, lines 195-198
ExitUpdate == {"setcode", "setstatus", "snap", "write"}

\* C29: while the capture worker of a job is inside its exit update, a step of
\* any other thread leaves the record of that job as it is.
C29_ExitUpdateAlone ==
  [][\A p \in Pids :
       (wk[p].pc \in ExitUpdate /\ wk'[p] = wk[p])
         => RecordOf(processes', p) = RecordOf(processes, p)]_vars

\* C30: a step of the capture worker of one launch leaves the record of every
\* other launch as it is.
C30_WorkerWritesOwnRecord ==
  [][\A p \in Pids, q \in Pids :
       (p # q /\ wk'[p] # wk[p])
         => RecordOf(processes', q) = RecordOf(processes, q)]_vars

\* the capture workers that have been started and have not ended
LiveWorkers == {p \in Pids : wk[p].pc \notin {"none", "done"}}

\* C31: whenever the foreground is between two calls, each record whose
\* status is running has exactly one live capture worker, the one of its own
\* launch, and each live capture worker is the one of a tracked record.
C31_RunningOwned ==
  main.pc = "idle" =>
    /\ \A i \in DOMAIN processes :
         processes[i].status = "running" =>
           {p \in LiveWorkers : wk[p].id = i} = {processes[i].pid}
    /\ \A p \in LiveWorkers :
         wk[p].id \in DOMAIN processes /\ processes[wk[p].id].pid = p

\* C34: a save that fails on the foreground thread ends the operation with
\* that failure reported to its caller and the records as they were, and the
\* except branch of kill leaves a record that was marked killed as killed.
C34_SaveFailureReported ==
  /\ [][(main.pc = "write" /\ main'.pc # "write"
          /\ main' # AfterSave([main EXCEPT !.snap = Empty]))
         => /\ main'.pc = "return"
            /\ main'.ret \in SaveErrors
            /\ processes' = processes]_vars
  /\ [][(main.pc = "kill_exc" /\ main'.pc # "kill_exc")
         => \A r \in RecordOf(processes, main.ref) :
              r.status = "killed" => RecordOf(processes', main.ref) = {r}]_vars

\* C32: whenever the foreground is between two calls and no capture worker
\* is inside its exit update, index.json holds exactly the tracked records
\* with the field values they have in memory.
C32_IndexCurrent ==
  (main.pc = "idle" /\ \A p \in Pids : wk[p].pc \notin ExitUpdate)
    => disk = processes

\* get_pending_callbacks returns the record of the launch p
Drained(p) == main.pc = "return" /\ main.op = "pending" /\ p \in main.val

\* C33: a job launched with callback = true whose process has ended leaves the
\* status running and is returned by get_pending_callbacks, unless its record
\* is removed or marked reviewed first.
C33_ExitedJobDrained ==
  \A p \in 1..MaxSolo :
    (\E r \in RecordOf(processes, p) :
        r.callback /\ os[p].state \in {"zombie", "gone"})
      ~> \/ Drained(p) /\ \A r \in RecordOf(processes, p) : r.status # "running"
         \/ RecordOf(processes, p) = {}
         \/ \E r \in RecordOf(processes, p) : r.reviewed

\* a job that asked for a callback has failed and was returned as pending
C33_FailedJobDrained ==
  /\ Drained(1)
  /\ \E r \in RecordOf(processes, 1) :
       r.callback /\ ~r.reviewed /\ r.status = "failed"

\* C35: a step leaves the status and the exit code of a record that is
\* completed, failed or killed as they are, for as long as the record is
\* tracked.
C35_TerminalAbsorbing ==
  [][\A p \in Pids :
       \A r \in RecordOf(processes, p), t \in RecordOf(processes', p) :
         r.status \in {"completed", "failed", "killed"}
           => t.status = r.status /\ t.exit_code = r.exit_code]_vars

\* the write x is a trailer, of an exit or of a kill
IsTrailer(x) ==
  x = KillTrailer \/ \E rc \in ExitCodes \cup {-SIGTERM} : x = ExitTrailer(rc)

\* C36: the log of a tracked record starts with the header of a launch, holds
\* at most one trailer, holds a trailer only when the status of the record is
\* completed, failed or killed, and holds nothing after its trailer.
C36_LogShape ==
  \A i \in DOMAIN logs \cap DOMAIN processes :
    LET l == logs[i].lines
        trailers == {k \in 1..Len(l) : IsTrailer(l[k])}
    IN /\ l # <<>> => \E r \in Requests : l[1] = Header(r.command)
       /\ Cardinality(trailers) <= 1
       /\ trailers # {} => processes[i].status \in {"completed", "failed", "killed"}
       /\ \A k \in trailers : k = Len(l)

\* C38: a call of interrupt made while no request is in progress returns
\* False and changes nothing but the flag; the request made after it starts
\* with the flag cleared, and a request delivers the interrupted event only if
\* interrupt was called after its send; the flag set by a call made after
\* send stays set while that request is in progress.
C38_IdleInterruptForgotten ==
  /\ [][(gen.pc \in {"idle", "closed"} /\ brain' # brain /\ gen'.pc = gen.pc)
          => answer' = "False" /\ UNCHANGED <<gen, engine, events>>]_vars
  /\ [][(gen.pc = "called" /\ gen'.pc # "called" /\ ~brain.asked)
          => ~brain'.interrupted]_vars
  /\ [][(\E i \in 1..Len(events') : events'[i] = InterruptedEvent)
          => brain'.asked]_vars
  /\ [][(brain.asked /\ brain.interrupted /\ gen.pc \notin {"idle", "closed"})
          => brain'.interrupted]_vars

\* the step leaves every record and every log as it is, but those of the ids S
FrameBut(S) ==
  /\ \A i \in (DOMAIN processes) \ S :
       i \in DOMAIN processes' /\ processes'[i] = processes[i]
  /\ \A i \in (DOMAIN logs) \ S :
       i \in DOMAIN logs' /\ logs'[i] = logs[i]

\* C39: a step of kill or mark_reviewed changes no record and no log but those
\* of the id it was called with, a step of a capture worker's exit update none
\* but those of the worker's id, and the step of run that creates the record
\* and the log changes no record and no log that existed.
C39_PerIdFrame ==
  /\ [][(main' # main /\ main.op \in {"kill", "kill_exc", "mark_reviewed"}
           /\ main.pc # "return")
          => FrameBut({main.id})]_vars
  /\ [][(main.pc = "idle" /\ main'.op \in {"kill", "mark_reviewed"})
          => FrameBut({main'.id})]_vars
  /\ [][\A p \in Pids :
          (wk'[p] # wk[p] /\ wk[p].pc \in ExitUpdate \cup {"trailer"})
            => FrameBut({wk[p].id})]_vars
  /\ [][(main.pc = "idle" /\ main'.op = "run") => FrameBut({})]_vars

\* x begins with pre
StartsWith(x, pre) == Len(x) >= Len(pre) /\ SubSeq(x, 1, Len(pre)) = pre

\* what the callback message held by the foreground thread m says of its job
Reports(m, what) ==
  StartsWith(m.text, "Background process [" \o m.id \o "] has " \o what)

\* C40: the callback message made for a finished job reports success exactly
\* when the status of the record is completed and failure exactly when it is
\* failed or killed; a record a liveness probe turned into completed, with no
\* exit code, is not reported as failed.
C40_MessageMatchesStatus ==
  [][(main.pc = "idle" /\ main'.op = "get_callback_message"
        /\ ObjOf(processes, main'.ref).status # "running")
       => LET proc == ObjOf(processes, main'.ref) IN
          /\ Reports(main', "completed successfully.") <=> proc.status = "completed"
          /\ Reports(main', "failed") <=> proc.status \in {"failed", "killed"}]_vars

\* C37: the conversation loop sends the callback message of a job for review
\* at most once, whatever completions, drains of the pending queue and
\* launches happen: no job is handed to _send_message a second time.
C37_SentForReviewOnce == \A p \in Pids : loop.sent[p] <= 1

====
